---- MODULE Spec2Model ----
(***************************************************************************)
(* State-machine model of the SINR monitor xApps of flexric_nsoran:        *)
(*   - the adaptive-window variant   (ue_localization_MA.c)                *)
(*   - the sequence-synchronized variant (ue_localization_MA_v2.c,         *)
(*     second translation unit, lines 664..1349)                          *)
(*   - the 5-second-interval variant (ue_localization_MA_v2.c, first       *)
(*     translation unit, lines 1..663)                                     *)
(* One action per indication callback (sm_cb_kpm); the C functions it      *)
(* calls are operators that thread the static state through as a record.   *)
(***************************************************************************)
EXTENDS Integers, Sequences, FiniteSets, TLC

VARIABLES
    \* ---- ue_localization_MA.c (adaptive window) ----
    ue_windows,          \* ue_windows[0 .. active_ue_count-1], 1-based here
    active_ue_count,
    num_measurements,    \* entries of measurements[] in use (0 between calls)
    indication_counter,
    log_file,            \* Seq of lines written to log_file
    log_file_open,       \* log_file != NULL
    console,             \* Seq of lines written by vprintf in log_both
    socket_connected,
    sock_out,            \* Seq of lines handed to send() successfully
    pstate,              \* "run" | "aborted" | "undefined" | "blocked"
    \* history variables (not program state)
    ingests,             \* the add_to_adaptive_window calls of the last callback
    accepted,            \* number of points accepted by add_to_adaptive_window
    last_ind,            \* the indication the last callback was given
    send_log,            \* the send() calls of send_to_python: [line, res]
    \* ---- ue_localization_MA_v2.c, sequence variant ----
    ue_buffers,
    num_active_ues,
    current_sequence_timestamp,
    current_burst_ue_count,
    burst_sequence_assigned,   \* [0 .. TOTAL_UES-1 -> BOOLEAN]
    pad_byte,                  \* the byte that follows burst_sequence_assigned
    ue_sequence_timestamps,    \* [0 .. TOTAL_UES -> Nat]
    layout,                    \* what the build placed after burst_sequence_assigned
    seq_indication_counter,
    seq_log_file,              \* Seq of lines written to log_file
    seq_log_file_open,         \* log_file != NULL
    seq_socket_connected,
    seq_sock_out,              \* Seq of lines handed to send()
    seq_pstate,                \* "run" | "aborted"
    \* history variables (not program state)
    seq_events,                \* the check_and_send_ue_data calls of the last callback
    seq_last_ind,
    seq_accepted,              \* number of serving samples stored so far
    seq_send_log,              \* the send() calls: [line, res]
    assign_log,                \* the direct calls of assign_sequence_timestamp
    env,                       \* the environment: position in the arrival order
    \* ---- ue_localization_MA_v2.c, 5-second-interval variant ----
    iv_ue_buffers,
    iv_num_active_ues,
    last_prediction_time,
    iv_indication_counter,
    iv_log_file,               \* Seq of lines written to log_file
    iv_log_file_open,          \* log_file != NULL
    iv_socket_connected,
    iv_sock_out,               \* Seq of lines handed to send()
    iv_pstate,                 \* "run" | "aborted"
    \* history variables (not program state)
    iv_events,                 \* the buffers process_and_send_averaged_data read
    iv_last_ind,
    iv_send_log,               \* the send() calls: [line, res]
    \* ---- the neighbor sort of check_and_send_ue_data on its own ----
    sort_input,                \* neighbors[0 .. neighbor_count-1] before the loops
    sort_output,               \* <<>> or <<the array after the loops>>
    \* ---- ue_localization_MA.c, callbacks on two threads ----
    cb_pc,                     \* thread -> position in sm_cb_kpm
    cb_ind,                    \* thread -> the indication it was called with
    cb_i,                      \* thread -> i of the loop over meas_report_per_ue
    mtx,                       \* 0 (free) or the thread that holds mtx
    \* history variables (not program state)
    cb_snap,                   \* thread -> the static state when it took mtx
    cb_calls,                  \* number of callbacks called so far
    \* ---- ue_localization_MA.c, shutdown while indications are delivered ----
    monitoring_active,
    socket_fd,                 \* the descriptor while the socket is open, -1 after close()
    file_closed,               \* fclose(log_file) has been called
    subscribed,                \* the report subscriptions have not been removed
    main_pc,                   \* position of main: "loop", "fclose", "rm", "stop"
    sh_pc,                     \* position of the callback: "idle", "emit", "send"
    sh_lines,                  \* lines the callback has still to hand to log_both
    \* history variables (not program state)
    sh_signals,                \* number of signals handled
    sh_bad_sends,              \* send() calls made after close(socket_fd)
    sh_late_writes,            \* vfprintf calls on log_file made after fclose
    sh_emitted,                \* lines written by the shutdown path itself
    \* ---- kpm_monitor_xapp_v2.c (one CSV row per measurement) ----
    csv_out,                   \* Seq of rows written by log_both
    csv_num_measurements,      \* entries of measurements[] in use
    csv_indication_counter,
    csv_pstate,                \* "run" | "aborted"
    \* history variables (not program state)
    csv_last_ind,              \* the indication the last callback was given
    csv_emitted,               \* number of rows the last callback wrote
    \* ---- kpm_monitor_xapp_v1.c (console report) ----
    v1_out,                    \* Seq of lines written by log_both
    v1_indication_counter,
    v1_pstate,                 \* "run" | "aborted" | "undefined"
    \* history variables (not program state)
    v1_reads,                  \* the pairs read from record lists: [len, j]
    v1_last_ind,
    \* ---- MmWaveEnbNetDevice (src/unnamed/part_001) ----
    m_prbHistory,              \* Seq of PRB values
    m_isReportingEnabled,
    m_is_reported,
    \* history variables (not program state)
    prb_reports,               \* BuildAndSendReportMessage calls: [size, avg]
    prb_scheduled,             \* a CheckReportingFlag event is in the simulator's queue
    prb_checks                 \* number of CheckReportingFlag calls

maVars == <<ue_windows, active_ue_count, num_measurements, indication_counter,
            log_file, log_file_open, console, socket_connected, sock_out,
            pstate, ingests, accepted, last_ind, send_log>>

seqVars == <<ue_buffers, num_active_ues, current_sequence_timestamp,
             current_burst_ue_count, burst_sequence_assigned, pad_byte,
             ue_sequence_timestamps, layout, seq_indication_counter,
             seq_log_file, seq_log_file_open, seq_socket_connected,
             seq_sock_out, seq_pstate, seq_events, seq_last_ind, seq_accepted,
             seq_send_log, assign_log, env>>

ivVars == <<iv_ue_buffers, iv_num_active_ues, last_prediction_time,
            iv_indication_counter, iv_log_file, iv_log_file_open,
            iv_socket_connected, iv_sock_out, iv_pstate, iv_events, iv_last_ind,
            iv_send_log>>

sortVars == <<sort_input, sort_output>>

ccVars == <<cb_pc, cb_ind, cb_i, mtx, cb_snap, cb_calls>>

shVars == <<monitoring_active, socket_fd, file_closed, subscribed, main_pc,
            sh_pc, sh_lines, sh_signals, sh_bad_sends, sh_late_writes,
            sh_emitted>>

csvVars == <<csv_out, csv_num_measurements, csv_indication_counter, csv_pstate,
             csv_last_ind, csv_emitted>>

v1Vars == <<v1_out, v1_indication_counter, v1_pstate, v1_reads, v1_last_ind>>

prbVars == <<m_prbHistory, m_isReportingEnabled, m_is_reported, prb_reports,
             prb_scheduled, prb_checks>>

vars == <<maVars, seqVars, ivVars, sortVars, ccVars, shVars, csvVars, v1Vars,
          prbVars>>

-----------------------------------------------------------------------------
(* Program constants *)

MAX_UE_COUNT == 100
BufferCapacity == 200
MaxMeasurements == 100
MaxNeighbors == 10
WindowMs == 5000
UINT16_MAX == 2^16 - 1
TOTAL_UES == 28
MIN_NEIGHBORS_REQUIRED == 3
WINDOW_SIZE == 1
MaxUeBuffers == 28
PREDICTION_INTERVAL_US == 5000000
IvMaxUeBuffers == 20
IvMaxNeighbors == 10

(* Bounds of the model *)

MaxInd == 3          \* indications per run, adaptive-window specification
MaxIndLong == 3      \* indications per run, long-window specification
MaxIndSeq == 3       \* indications per run, sequence specification
MaxTicks == 2        \* complete ticks of the cohort per run
MaxAssignCalls == 58 \* direct calls of assign_sequence_timestamp per run
MaxDup == 1          \* of which repeated calls for an already recorded UE
MaxIndIv == 3        \* indications per run, 5-second-interval specification
MaxIndRank == 3      \* indications per run, neighbor-ranking specification
MaxIndFull == 3      \* indications per run, full-table specification
MaxIndSock == 3      \* indications per run, connected-socket specification
MaxCalls == 3        \* callbacks called per run, two-thread specification
MaxIndMal == 2       \* indications per program, malformed-delivery specification
MaxSortLen == 4      \* candidates in a list handed to the neighbor sort
MaxSortSinr == 3     \* SINR values 1 .. MaxSortSinr in such a list

-----------------------------------------------------------------------------
(* double values: integers, plus one value standing for NaN.  Every         *)
(* comparison with NaN is false and every sum with NaN is NaN.              *)

NaN == 0 - 1000000
IsNaN(x) == x = NaN
DAdd(a, b) == IF IsNaN(a) \/ IsNaN(b) THEN NaN ELSE a + b
DLess(a, b) == ~IsNaN(a) /\ ~IsNaN(b) /\ a < b
DGreater(a, b) == ~IsNaN(a) /\ ~IsNaN(b) /\ a > b

(* uint16_t conversion of an integer *)
U16(n) == n % 65536

(* a - b >= 5000 for uint64_t a, b: the difference is taken modulo 2^64,    *)
(* so for a < b it is 2^64 - (b - a), which is >= 5000 for every b - a      *)
(* the model can produce (b - a <= 2^64 - 5000).                            *)
ElapsedAtLeast(a, b, d) == IF a >= b THEN a - b >= d ELSE TRUE

(* F(v), with v evaluated before F is entered *)
Strict(F(_), v) == CHOOSE r \in {F(x) : x \in {v}} : TRUE

(* left-to-right fold of Op over s[lo..hi], split in halves (and the left   *)
(* half evaluated first) so that the evaluation stays shallow for long      *)
(* sequences                                                                *)
RECURSIVE FoldRange(_, _, _, _, _)
FoldRange(Op(_, _), acc, s, lo, hi) ==
    IF lo > hi THEN acc
    ELSE IF lo = hi THEN Op(acc, s[lo])
    ELSE LET mid == (lo + hi) \div 2
         IN  Strict(LAMBDA l : FoldRange(Op, l, s, mid + 1, hi),
                    FoldRange(Op, acc, s, lo, mid))

FoldSeq(Op(_, _), acc, s) == FoldRange(Op, acc, s, 1, Len(s))

SumSeq(s) == FoldSeq(DAdd, 0, s)

SumNat(s) == FoldSeq(LAMBDA a, b : a + b, 0, s)


RECURSIVE Fact(_)
Fact(n) == IF n <= 1 THEN 1 ELSE n * Fact(n - 1)

RemoveAt(s, i) == SubSeq(s, 1, i - 1) \o SubSeq(s, i + 1, Len(s))

(* the k-th (0-based) arrangement of s *)
RECURSIVE NthPerm(_, _)
NthPerm(s, k) ==
    IF Len(s) <= 1 THEN s
    ELSE LET f == Fact(Len(s) - 1)
             i == ((k \div f) % Len(s)) + 1
         IN  <<s[i]>> \o NthPerm(RemoveAt(s, i), k % f)

(* insertion of v into a sequence already in descending order *)
RECURSIVE InsertDesc(_, _)
InsertDesc(v, s) ==
    IF s = <<>> THEN <<v>>
    ELSE IF v >= Head(s) THEN <<v>> \o s
    ELSE <<Head(s)>> \o InsertDesc(v, Tail(s))

RECURSIVE SortDesc(_)
SortDesc(s) == IF s = <<>> THEN <<>> ELSE InsertDesc(Head(s), SortDesc(Tail(s)))

-----------------------------------------------------------------------------
(* ue_localization_MA.c                                                    *)

(* cell_positions[]: cellID -> <<x, y>>; <<>> stands for the NULL result *)
get_cell_position(cellID) ==
    CASE cellID = 2 -> <<800, 800>>
      [] cellID = 3 -> <<1200, 800>>
      [] cellID = 4 -> <<1000, 1146>>
      [] cellID = 5 -> <<600, 1146>>
      [] cellID = 6 -> <<400, 800>>
      [] cellID = 7 -> <<600, 453>>
      [] cellID = 8 -> <<1000, 453>>
      [] OTHER -> <<>>

(* A measurement name is kept as the parts sscanf looks at:                 *)
(*   prefix  "serv"  = starts with "L3servingSINR3gpp_cell_"                *)
(*           "neigh" = starts with "L3neighSINRListOf_UEID_"                *)
(*   t1, t2  the two number fields: <<n>> for decimal text n, <<>> for      *)
(*           text %hd cannot convert                                        *)
(*   sep     the literal between the two fields is the expected one         *)
ScanCount(name) ==
    IF name.t1 = <<>> THEN 0
    ELSE IF ~name.sep \/ name.t2 = <<>> THEN 1
    ELSE 2

(* parseServingMsg: "..._cell_%hd_UEID_%hd" -> cellID, ueID *)
parseServingMsg(name) ==
    IF ScanCount(name) = 2
    THEN [cellID |-> U16(name.t1[1]), ueID |-> U16(name.t2[1])]
    ELSE [cellID |-> U16(0 - 1), ueID |-> U16(0 - 1)]

(* parseNeighMsg: "..._UEID_%hd_of_Cell_%hd" -> ueID, cellID *)
parseNeighMsg(name) ==
    IF ScanCount(name) = 2
    THEN [ueID |-> U16(name.t1[1]), cellID |-> U16(name.t2[1])]
    ELSE [ueID |-> U16(0 - 1), cellID |-> U16(0 - 1)]

(* find_ue_window: index of the first entry with this ue_id, 0 for NULL *)
find_ue_window(w, n, ue_id) ==
    LET hits == {i \in 1..n : w[i].ue_id = ue_id}
    IN  IF hits = {} THEN 0 ELSE CHOOSE i \in hits : \A j \in hits : i <= j

(* the entry create_ue_window leaves after memset and ue_id assignment *)
NewWindow(ue_id) ==
    [ue_id |-> ue_id, current_serving_cell |-> 0, window_start_time |-> 0,
     window_active |-> FALSE, buffer |-> <<>>, count |-> 0]

(* send_window_batch_to_python: the arguments of the snprintf call, as the  *)
(* lines handed to log_both.  A mean is kept as <<sum, count>>; sids and    *)
(* cands are history fields naming the buffered points the sums were taken  *)
(* over and the neighbor candidates of each of them.                        *)
send_window_batch_to_python(window) ==
    IF window.count = 0 THEN <<>>
    ELSE LET b == window.buffer
             c == window.count
             last == b[c]
         IN <<[kind |-> "data",
               timestamp |-> SumNat([i \in 1..c |-> b[i].timestamp]) \div c,
               ue_id |-> window.ue_id,
               serving_cell |-> window.current_serving_cell,
               serving |-> <<SumSeq([i \in 1..c |-> b[i].servingSINR]), c>>,
               neighbors |-> [j \in 1..3 |->
                   <<SumSeq([i \in 1..c |-> b[i].neighborSINR[j]]), c>>],
               x |-> last.servingCellX,
               y |-> last.servingCellY,
               sids |-> [i \in 1..c |-> b[i].sid],
               cands |-> [i \in 1..c |-> b[i].cands]]>>

(* reset_window without count = 0 *)
reset_window_keeps_count(window, new_start_time) ==
    [window EXCEPT !.window_start_time = new_start_time,
                   !.current_serving_cell = 0,
                   !.window_active = FALSE]

(* reset_window without current_serving_cell = 0 and window_active = false *)
reset_window_keeps_cell(window, new_start_time) ==
    [window EXCEPT !.count = 0,
                   !.buffer = <<>>,
                   !.window_start_time = new_start_time]

reset_window(window, new_start_time) ==
    [window EXCEPT !.count = 0,
                   !.buffer = <<>>,
                   !.window_start_time = new_start_time,
                   !.current_serving_cell = 0,
                   !.window_active = FALSE]

(* window->buffer[window->count++] = *point, for count < 200 *)
StorePoint(window, point) ==
    [window EXCEPT !.buffer = Append(window.buffer, point),
                   !.count = window.count + 1]

(* The bit pattern of a double read as an integer: 0 for 0.0, and for every *)
(* other value of the model a number above every timestamp (HugeBits); its  *)
(* low 16 bits are 0.                                                       *)
HugeBits == 2^30
DoubleBits(v) == IF v = 0 THEN 0 ELSE HugeBits

(* The same store for count = 200: the element lies past the array.  With   *)
(* the field offsets of the x86-64 ABI                                      *)
(*   measurement_point_t   timestamp 0, ueID 8, servingCellID 10,           *)
(*                         servingSINR 16, neighborSINR 24/32/40,           *)
(*                         servingCellX 48, servingCellY 56, size 64        *)
(*   ue_adaptive_window_t  ue_id 0, current_serving_cell 2,                 *)
(*                         window_start_time 8, window_active 16,           *)
(*                         buffer 24, count 12824, size 12832               *)
(* buffer[200] starts at the count field and its last 56 bytes are the      *)
(* first 56 bytes of the next table entry.  Outcomes:                       *)
(*   "inc_then_copy"  count is incremented, then the copy overwrites it     *)
(*                    with the timestamp                                    *)
(*   "copy_then_inc"  the copy overwrites count, then it is incremented     *)
(*   "trap"           the store is trapped and the process is terminated    *)
ClobberNext(next, point) ==
    [next EXCEPT
        !.ue_id = point.ueID,
        !.current_serving_cell = point.servingCellID,
        !.window_start_time = DoubleBits(point.servingSINR),
        !.window_active = FALSE,
        !.buffer = IF next.buffer = <<>> THEN <<>>
                   ELSE [next.buffer EXCEPT
                           ![1].timestamp = DoubleBits(point.neighborSINR[2]),
                           ![1].ueID = 0,
                           ![1].servingCellID = 0,
                           ![1].servingSINR = point.servingCellX,
                           ![1].neighborSINR[1] = point.servingCellY]]

OverflowStore(w, idx, point, ubc) ==
    IF ubc = "trap" THEN w
    ELSE [i \in 1..Len(w) |->
            IF i = idx
            THEN [w[i] EXCEPT !.count = IF ubc = "copy_then_inc"
                                        THEN point.timestamp + 1
                                        ELSE point.timestamp]
            ELSE IF i = idx + 1 THEN ClobberNext(w[i], point)
            ELSE w[i]]

(* add_to_adaptive_window on the state record                               *)
(*   st.w, st.n   ue_windows, active_ue_count                              *)
(*   st.lines     lines handed to log_both so far in this callback         *)
(*   st.log       history of the calls, st.acc accepted points so far      *)
(*   st.ub        "none" or the outcome of an out-of-bounds store; nothing  *)
(*                of the callback is modelled after such a store            *)
AddBody(st, idx, pt, ubc) ==
    LET window == st.w[idx]
        before == st.w
        Done(w2, out, ub) ==
            [st EXCEPT !.w = w2,
                       !.lines = st.lines \o out,
                       !.acc = pt.sid,
                       !.ub = ub,
                       !.log = Append(st.log,
                                  [pt |-> pt, idx |-> idx, pre |-> before,
                                   post |-> w2, out |-> out, ub |-> ub])]
    IN
    IF window.count = 0 \/ window.current_serving_cell = pt.servingCellID
    THEN LET w1 == IF window.count = 0
                   THEN [window EXCEPT !.current_serving_cell = pt.servingCellID,
                                       !.window_start_time = pt.timestamp,
                                       !.window_active = TRUE]
                   ELSE window
         IN IF w1.count >= BufferCapacity
            THEN Done(OverflowStore([st.w EXCEPT ![idx] = w1], idx, pt, ubc),
                      <<>>, ubc)
            ELSE LET w2 == StorePoint(w1, pt)
                 IN IF ElapsedAtLeast(pt.timestamp, w2.window_start_time, WindowMs)
                    THEN Done([st.w EXCEPT ![idx] = reset_window(w2, pt.timestamp)],
                              send_window_batch_to_python(w2), "none")
                    ELSE Done([st.w EXCEPT ![idx] = w2], <<>>, "none")
    ELSE LET out == send_window_batch_to_python(window)
             w1 == reset_window(window, pt.timestamp)
             w2 == [w1 EXCEPT !.current_serving_cell = pt.servingCellID,
                              !.window_active = TRUE]
         IN Done([st.w EXCEPT ![idx] = StorePoint(w2, pt)], out, "none")

(* add_to_adaptive_window with a create_ue_window that never answers NULL *)
add_to_adaptive_window_no_full_test(st, point, ubc) ==
    LET found == find_ue_window(st.w, st.n, point.ueID)
        pt == [point EXCEPT !.sid = st.acc + 1]
    IN  IF found # 0 THEN AddBody(st, found, pt, ubc)
        ELSE AddBody([st EXCEPT !.w = Append(st.w, NewWindow(point.ueID)),
                                !.n = st.n + 1],
                     st.n + 1, pt, ubc)

add_to_adaptive_window(st, point, ubc) ==
    LET found == find_ue_window(st.w, st.n, point.ueID)
        pt == [point EXCEPT !.sid = st.acc + 1]
    IN  IF found # 0 THEN AddBody(st, found, pt, ubc)
        ELSE IF st.n >= MAX_UE_COUNT              \* create_ue_window: NULL
             THEN [st EXCEPT !.acc = pt.sid]
        ELSE AddBody([st EXCEPT !.w = Append(st.w, NewWindow(point.ueID)),
                                !.n = st.n + 1],
                     st.n + 1, pt, ubc)


(* qsort(m->neighbors, ..., compare_neighbors_by_sinr) followed by the      *)
(* copy of neighbors[0..2].neighSINR: only the SINR values are read, so the *)
(* order among equal values does not show.  compare_neighbors_by_sinr       *)
(* answers 0 for every pair with a NaN, which is no ordering: the           *)
(* arrangement qsort then leaves is any one, picked by q.                   *)
SortedNeighborSINR(neighbors, q) ==
    LET vals == [i \in 1..Len(neighbors) |-> neighbors[i].neighSINR]
    IN  IF Len(vals) <= 1 THEN vals
        ELSE IF \E i \in 1..Len(vals) : IsNaN(vals[i])
             THEN NthPerm(vals, q % Fact(Len(vals)))
             ELSE SortDesc(vals)

(* the measurement_point_t built from measurements[i]; sid and cands are    *)
(* history fields: the number of the sample and its neighbors[] before the  *)
(* sort                                                                     *)
MakePoint(m, q) ==
    LET sorted == SortedNeighborSINR(m.neighbors, q)
    IN  [timestamp |-> m.timestamp,
         ueID |-> m.ueID,
         servingCellID |-> m.servingCellID,
         servingSINR |-> m.servingSINR,
         neighborSINR |-> [j \in 1..3 |-> IF j <= Len(sorted) THEN sorted[j] ELSE 0],
         servingCellX |-> IF m.servingPos = <<>> THEN 0 ELSE m.servingPos[1],
         servingCellY |-> IF m.servingPos = <<>> THEN 0 ELSE m.servingPos[2],
         sid |-> 0,
         cands |-> m.neighbors]

(* process_measurements_to_adaptive_windows: the loop over measurements[]; *)
(* nothing is modelled of a callback after an out-of-bounds store           *)
process_measurements_to_adaptive_windows(st, ms, ubc, q) ==
    FoldSeq(LAMBDA a, m : IF a.ub # "none" THEN a
                          ELSE add_to_adaptive_window(a, MakePoint(m, q), ubc),
            st, ms)

(* the serving-tuple test without the UINT16_MAX comparison *)
ServingAccepted_no_sentinel_test(item) ==
    /\ item.type = "NAME"
    /\ item.name.prefix = "serv"
    /\ Len(item.records) > 0
    /\ item.records[1].value \in {"REAL", "INTEGER"}

(* first loop of log_kpm_measurements: the serving tuples *)
ServingAccepted(item) ==
    /\ item.type = "NAME"
    /\ item.name.prefix = "serv"
    /\ parseServingMsg(item.name).cellID # UINT16_MAX
    /\ parseServingMsg(item.name).ueID # UINT16_MAX
    /\ Len(item.records) > 0
    /\ item.records[1].value \in {"REAL", "INTEGER"}

CollectServingItem(ms, item, timestamp_ms) ==
    LET info == parseServingMsg(item.name)
    IN  IF ServingAccepted(item) /\ Len(ms) < MaxMeasurements
        THEN Append(ms, [timestamp |-> timestamp_ms,
                         ueID |-> info.ueID,
                         servingCellID |-> info.cellID,
                         servingSINR |-> item.records[1].v,
                         servingPos |-> get_cell_position(info.cellID),
                         neighbors |-> <<>>])
        ELSE ms

CollectServing(items, timestamp_ms) ==
    FoldSeq(LAMBDA ms, item : CollectServingItem(ms, item, timestamp_ms), <<>>, items)

(* the pairs (SINR, neighbor id) at positions j, j+1 of one record list *)
RECURSIVE AppendPairs(_, _, _)
AppendPairs(neighbors, records, j) ==
    IF j + 1 > Len(records) THEN neighbors
    ELSE LET sinr == records[j]
             neighID == records[j + 1]
         IN IF sinr.value = "REAL" /\ neighID.value = "INTEGER"
               /\ Len(neighbors) < MaxNeighbors
            THEN AppendPairs(Append(neighbors,
                                    [neighCellID |-> U16(neighID.v),
                                     neighSINR |-> sinr.v]),
                             records, j + 2)
            ELSE AppendPairs(neighbors, records, j + 2)

NeighborAccepted(item) ==
    /\ item.type = "NAME"
    /\ item.name.prefix = "neigh"
    /\ parseNeighMsg(item.name).cellID # UINT16_MAX
    /\ parseNeighMsg(item.name).ueID # UINT16_MAX

(* second loop of log_kpm_measurements: the neighbor lists *)
CollectNeighborItem(ms, item) ==
    LET info == parseNeighMsg(item.name)
        hits == {m \in 1..Len(ms) : ms[m].ueID = info.ueID}
    IN  IF NeighborAccepted(item) /\ hits # {}
        THEN LET m == CHOOSE x \in hits : \A y \in hits : x <= y
             IN  [ms EXCEPT ![m].neighbors =
                      AppendPairs(ms[m].neighbors, item.records, 1)]
        ELSE ms

CollectNeighbors(ms, items) == FoldSeq(CollectNeighborItem, ms, items)

(* log_kpm_measurements.  A report is [items, data_len]: the entries of     *)
(* meas_info_lst, each with its meas_data_lst record list, and              *)
(* meas_data_lst_len.  timestamp is collectStartTime.                       *)
log_kpm_measurements(st, report, timestamp, ubc, q) ==
    IF Len(report.items) = 0 THEN [st EXCEPT !.abort = TRUE]   \* assert
    ELSE IF Len(report.items) # report.data_len THEN st
    ELSE LET timestamp_ms == timestamp \div 1000
             serving == CollectServing(report.items, timestamp_ms)
             ms == CollectNeighbors(serving, report.items)
         IN process_measurements_to_adaptive_windows(st, ms, ubc, q)

(* the loop of sm_cb_kpm over meas_report_per_ue *)
RECURSIVE ReportLoop(_, _, _, _, _, _)
ReportLoop(st, reports, i, timestamp, ubc, q) ==
    IF i > Len(reports) \/ st.abort \/ st.ub # "none" THEN st
    ELSE ReportLoop(log_kpm_measurements(st, reports[i], timestamp, ubc, q),
                    reports, i + 1, timestamp, ubc, q)

HeaderLine == [kind |-> "header"]

(* log_both with a send_to_python that does not clear socket_connected *)
LogLine_keeps_connected(sinks, line, file_open, sendres) ==
    IF sinks.blocked # 0 THEN sinks
    ELSE
    LET s0 == [sinks EXCEPT !.k = sinks.k + 1]
        s1 == [s0 EXCEPT !.console = Append(s0.console, line)]
        s2 == IF file_open THEN [s1 EXCEPT !.file = Append(s1.file, line)] ELSE s1
        res == sendres[IF s2.sent = 0 THEN 1 ELSE 2]
        s3 == [s2 EXCEPT !.tries = Append(s2.tries, [line |-> line, res |-> res]),
                         !.sent = s2.sent + 1]
    IN  IF s2.connected /\ line.kind # "header"
        THEN CASE res = "ok" -> [s3 EXCEPT !.sock = Append(s3.sock, line)]
               [] res = "reset" -> s3
               [] res = "block" -> [s3 EXCEPT !.blocked = s3.k]
               [] OTHER -> s3
        ELSE s2

(* log_both without the test that keeps the header line off the socket *)
LogLine_sends_header(sinks, line, file_open, sendres) ==
    IF sinks.blocked # 0 THEN sinks
    ELSE
    LET s0 == [sinks EXCEPT !.k = sinks.k + 1]
        s1 == [s0 EXCEPT !.console = Append(s0.console, line)]
        s2 == IF file_open THEN [s1 EXCEPT !.file = Append(s1.file, line)] ELSE s1
        res == sendres[IF s2.sent = 0 THEN 1 ELSE 2]
        s3 == [s2 EXCEPT !.tries = Append(s2.tries, [line |-> line, res |-> res]),
                         !.sent = s2.sent + 1]
    IN  IF s2.connected
        THEN CASE res = "ok" -> [s3 EXCEPT !.sock = Append(s3.sock, line)]
               [] res = "reset" -> [s3 EXCEPT !.connected = FALSE]
               [] res = "block" -> [s3 EXCEPT !.blocked = s3.k]
               [] OTHER -> s3
        ELSE s2

(* log_both for a sequence of lines.  sinks = [console, file, sock,         *)
(* connected, tries, sent, k, blocked]; file_open is log_file != NULL.  The *)
(* header line is never sent.  sendres = <<first, later>> says how the      *)
(* first send() of this callback ends and how the later ones end:           *)
(*   "ok"     all bytes taken                                               *)
(*   "reset"  -1 with EPIPE or ECONNRESET: socket_connected = false         *)
(*   "other"  -1 with another errno: nothing changes                        *)
(*   "block"  the peer does not read and the socket buffer is full: the     *)
(*            call does not return (the socket is a blocking one)           *)
(* tries is the history of the send() calls, sent the number of them and k  *)
(* the number of lines handed to log_both in this callback, blocked the     *)
(* number of the line whose send() did not return (0: none); nothing is     *)
(* done after it.                                                           *)
LogLine(sinks, line, file_open, sendres) ==
    IF sinks.blocked # 0 THEN sinks
    ELSE
    LET s0 == [sinks EXCEPT !.k = sinks.k + 1]
        s1 == [s0 EXCEPT !.console = Append(s0.console, line)]
        s2 == IF file_open THEN [s1 EXCEPT !.file = Append(s1.file, line)] ELSE s1
        res == sendres[IF s2.sent = 0 THEN 1 ELSE 2]
        s3 == [s2 EXCEPT !.tries = Append(s2.tries, [line |-> line, res |-> res]),
                         !.sent = s2.sent + 1]
    IN  IF s2.connected /\ line.kind # "header"
        THEN CASE res = "ok" -> [s3 EXCEPT !.sock = Append(s3.sock, line)]
               [] res = "reset" -> [s3 EXCEPT !.connected = FALSE]
               [] res = "block" -> [s3 EXCEPT !.blocked = s3.k]
               [] OTHER -> s3
        ELSE s2

log_both(sinks, lines, file_open, sendres) ==
    FoldSeq(LAMBDA a, line : LogLine(a, line, file_open, sendres), sinks, lines)

(* sm_cb_kpm: one indication [timestamp, reports] under the mutex *)
MaCallback(ind, ubc, q) ==
    LET st0 == [w |-> ue_windows, n |-> active_ue_count,
                lines |-> IF indication_counter = 0 THEN <<HeaderLine>> ELSE <<>>,
                log |-> <<>>, acc |-> accepted, ub |-> "none", abort |-> FALSE]
    IN  ReportLoop(st0, ind.reports, 1, ind.timestamp, ubc, q)

sm_cb_kpm(ind, ubc, q, sendres) ==
    /\ pstate = "run"
    /\ \E st \in {MaCallback(ind, ubc, q)} :
       \E sinks \in {log_both([console |-> console, file |-> log_file,
                               sock |-> sock_out, connected |-> socket_connected,
                               tries |-> send_log, sent |-> 0,
                               k |-> 0, blocked |-> 0],
                              st.lines, log_file_open, sendres)} :
       LET \* the add_to_adaptive_window call whose line is the one blocked
           hdr == IF indication_counter = 0 THEN 1 ELSE 0
           emit == {e \in 1..Len(st.log) : st.log[e].out # <<>>}
           e == CHOOSE x \in emit :
                   Cardinality({y \in emit : y <= x}) = sinks.blocked - hdr
       IN /\ indication_counter' = indication_counter + 1
          /\ num_measurements' = 0
          /\ console' = sinks.console
          /\ log_file' = sinks.file
          /\ sock_out' = sinks.sock
          /\ socket_connected' = sinks.connected
          /\ send_log' = sinks.tries
          /\ last_ind' = ind
          /\ IF sinks.blocked # 0
             THEN \* stuck in send() inside that call, which began from .pre
                  /\ ue_windows' = st.log[e].pre
                  /\ active_ue_count' = Len(st.log[e].pre)
                  /\ ingests' = SubSeq(st.log, 1, e - 1)
                  /\ accepted' = st.log[e].pt.sid - 1
                  /\ pstate' = "blocked"
             ELSE /\ ue_windows' = st.w
                  /\ active_ue_count' = st.n
                  /\ ingests' = st.log
                  /\ accepted' = st.acc
                  /\ pstate' = IF st.ub # "none" THEN "undefined"
                               ELSE IF st.abort THEN "aborted" ELSE "run"
    /\ UNCHANGED log_file_open
    /\ UNCHANGED <<seqVars, ivVars, sortVars, ccVars, shVars, csvVars, v1Vars, prbVars>>


-----------------------------------------------------------------------------
(* Inputs: decoded measurement items and reports                            *)

Real(v) == [value |-> "REAL", v |-> v]
Integer(v) == [value |-> "INTEGER", v |-> v]

(* "L3servingSINR3gpp_cell_<cell>_UEID_<ue>" with one REAL record *)
Serv(ue, cell, sinr) ==
    [type |-> "NAME",
     name |-> [prefix |-> "serv", t1 |-> <<cell>>, sep |-> TRUE, t2 |-> <<ue>>],
     records |-> <<Real(sinr)>>]

(* "L3neighSINRListOf_UEID_<ue>_of_Cell_<cell>" with (SINR, id) records *)
Neigh(ue, cell, records) ==
    [type |-> "NAME",
     name |-> [prefix |-> "neigh", t1 |-> <<ue>>, sep |-> TRUE, t2 |-> <<cell>>],
     records |-> records]

(* names sscanf cannot convert, or converts to 65535 *)
ServNoUe(cell, sinr) ==
    [type |-> "NAME",
     name |-> [prefix |-> "serv", t1 |-> <<cell>>, sep |-> TRUE, t2 |-> <<>>],
     records |-> <<Real(sinr)>>]
ServNoCell(sinr) ==
    [type |-> "NAME",
     name |-> [prefix |-> "serv", t1 |-> <<>>, sep |-> FALSE, t2 |-> <<>>],
     records |-> <<Real(sinr)>>]
ServMinusOne(ue, sinr) ==
    [type |-> "NAME",
     name |-> [prefix |-> "serv", t1 |-> <<0 - 1>>, sep |-> TRUE, t2 |-> <<ue>>],
     records |-> <<Real(sinr)>>]
NeighNoCell(ue, records) ==
    [type |-> "NAME",
     name |-> [prefix |-> "neigh", t1 |-> <<ue>>, sep |-> FALSE, t2 |-> <<>>],
     records |-> records]

Report(items) == [items |-> items, data_len |-> Len(items)]

Pairs3 == <<Real(12), Integer(3), Real(9), Integer(4), Real(15), Integer(5)>>
PairsNaN == <<Real(NaN), Integer(4), Real(11), Integer(5)>>

MismatchedReport == [items |-> <<Serv(1, 2, 10)>>, data_len |-> 2]

MaReports ==
    { Report(<<Serv(1, 2, 10), Neigh(1, 2, Pairs3)>>),
      Report(<<Serv(1, 3, 20), Neigh(1, 3, PairsNaN)>>),
      Report(<<Serv(2, 3, 20), Serv(1, 2, 20)>>),
      Report(<<ServNoCell(30), Serv(2, 2, 10), NeighNoCell(2, Pairs3),
               ServMinusOne(1, 10), ServNoUe(2, 10)>>) }

MaTimestamps == {0, 4999999, 5000000}

MaIndications ==
    [timestamp : MaTimestamps, reports : {<<r>> : r \in MaReports}]
    \cup {[timestamp |-> 0, reports |-> <<MismatchedReport>>]}

UbOutcomes == {"inc_then_copy", "copy_then_inc", "trap"}
SendResults == {"ok", "reset", "other", "block"}

(* the choices that can show in the callback of ind from the current state *)
HasNaNRecord(ind) ==
    \E i \in 1..Len(ind.reports) :
      \E j \in 1..Len(ind.reports[i].items) :
        \E k \in 1..Len(ind.reports[i].items[j].records) :
          IsNaN(ind.reports[i].items[j].records[k].v)
NumItems(ind) == SumNat([i \in 1..Len(ind.reports) |-> Len(ind.reports[i].items)])
UbChoices(ind) ==
    IF \E i \in 1..active_ue_count :
          ue_windows[i].count + NumItems(ind) > BufferCapacity
    THEN UbOutcomes ELSE {"trap"}
QsortChoices(ind) == IF HasNaNRecord(ind) THEN 0..1 ELSE {0}
SendChoices ==
    IF socket_connected THEN SendResults \X SendResults ELSE {<<"ok", "ok">>}

NoInd == [timestamp |-> 0, reports |-> <<>>]

(* ue_localization_MA_v2.c calls send(socket_fd, line, strlen(line),        *)
(* MSG_NOSIGNAL) for every line and does not read the result: "ok" all      *)
(* bytes taken, "reset" -1 (EPIPE, ECONNRESET or another errno).  The calls *)
(* of one callback for its lines, all ending as res says.                   *)
V2SendResults == {"ok", "reset"}
SendCalls(lines, res) == [i \in 1..Len(lines) |-> [line |-> lines[i], res |-> res]]

InitMaVars(file_open, connected) ==
    /\ ue_windows = <<>>
    /\ active_ue_count = 0
    /\ num_measurements = 0
    /\ indication_counter = 0
    /\ log_file = <<>>
    /\ log_file_open = file_open
    /\ console = <<>>
    /\ socket_connected = connected
    /\ sock_out = <<>>
    /\ pstate = "run"
    /\ ingests = <<>>
    /\ accepted = 0
    /\ last_ind = NoInd
    /\ send_log = <<>>

InitIvVars ==
    /\ iv_ue_buffers = <<>>
    /\ iv_num_active_ues = 0
    /\ last_prediction_time = 0
    /\ iv_indication_counter = 0
    /\ iv_log_file = <<>>
    /\ iv_log_file_open = TRUE
    /\ iv_socket_connected = TRUE
    /\ iv_sock_out = <<>>
    /\ iv_pstate = "run"
    /\ iv_events = <<>>
    /\ iv_last_ind = NoInd
    /\ iv_send_log = <<>>

Threads == {1, 2}

InitCcVars ==
    /\ cb_pc = [t \in Threads |-> "idle"]
    /\ cb_ind = [t \in Threads |-> NoInd]
    /\ cb_i = [t \in Threads |-> 0]
    /\ mtx = 0
    /\ cb_snap = [t \in Threads |-> <<>>]
    /\ cb_calls = 0

(* main before the signal: socket_fd is the descriptor that socket() gave  *)
(* init_unix_socket when connect succeeded (4: the one after log_file's),   *)
(* -1 otherwise (line 203); the subscriptions are made                      *)
InitShVars ==
    /\ monitoring_active = TRUE
    /\ socket_fd = IF socket_connected THEN 4 ELSE -1
    /\ file_closed = FALSE
    /\ subscribed = TRUE
    /\ main_pc = "loop"
    /\ sh_pc = "idle"
    /\ sh_lines = <<>>
    /\ sh_signals = 0
    /\ sh_bad_sends = 0
    /\ sh_late_writes = 0
    /\ sh_emitted = <<>>

(* the statics of the two monitor programs and the members of the device *)
(* after construction                                                     *)
InitMonitorVars ==
    /\ csv_out = <<>>
    /\ csv_num_measurements = 0
    /\ csv_indication_counter = 0
    /\ csv_pstate = "run"
    /\ csv_last_ind = NoInd
    /\ csv_emitted = 0
    /\ v1_out = <<>>
    /\ v1_indication_counter = 0
    /\ v1_pstate = "run"
    /\ v1_reads = <<>>
    /\ v1_last_ind = NoInd
    /\ m_prbHistory = <<>>
    /\ m_isReportingEnabled = FALSE
    /\ m_is_reported = FALSE
    /\ prb_reports = <<>>
    /\ prb_scheduled = TRUE
    /\ prb_checks = 0

InitSortVars ==
    /\ sort_input = <<>>
    /\ sort_output = <<>>

InitSeqVars(lay) ==
    /\ ue_buffers = <<>>
    /\ num_active_ues = 0
    /\ current_sequence_timestamp = 0
    /\ current_burst_ue_count = 0
    /\ burst_sequence_assigned = [i \in 0..(TOTAL_UES - 1) |-> FALSE]
    /\ pad_byte = 0
    /\ ue_sequence_timestamps = [i \in 0..TOTAL_UES |-> 0]
    /\ layout = lay
    /\ seq_indication_counter = 0
    /\ seq_log_file = <<>>
    /\ seq_log_file_open = TRUE
    /\ seq_socket_connected = TRUE
    /\ seq_sock_out = <<>>
    /\ seq_pstate = "run"
    /\ seq_events = <<>>
    /\ seq_last_ind = NoInd
    /\ seq_accepted = 0
    /\ seq_send_log = <<>>
    /\ assign_log = <<>>
    /\ env = [order |-> "none", pos |-> 0, ticks |-> 0, dups |-> 0]

(* Adaptive-window variant: log file opened, no receiver on the socket *)
Init ==
    /\ InitMaVars(TRUE, FALSE)
    /\ InitSeqVars("pad")
    /\ InitIvVars
    /\ InitCcVars
    /\ InitShVars
    /\ InitMonitorVars
    /\ InitSortVars

Next ==
    /\ indication_counter < MaxInd
    /\ \E ind \in MaIndications :
         \E ubc \in UbChoices(ind), q \in QsortChoices(ind), sendres \in SendChoices :
            sm_cb_kpm(ind, ubc, q, sendres)

Spec == Init /\ [][Next]_vars


(* Long windows: many samples of one serving cell inside one window *)
Burst(ue, k) == Report([i \in 1..k |-> Serv(ue, 2, 10)])

LongIndications ==
    [timestamp : {0},
     reports : {<<Burst(1, MaxMeasurements)>>,
                <<Burst(1, MaxMeasurements), Burst(2, 1)>>}]
    \cup [timestamp : {0, 4999999, 5000000},
          reports : {<<Burst(u, 1)>> : u \in {1, 2}}]

NextLong ==
    /\ indication_counter < MaxIndLong
    /\ \E ind \in LongIndications :
         \E ubc \in UbChoices(ind), q \in QsortChoices(ind), sendres \in SendChoices :
            sm_cb_kpm(ind, ubc, q, sendres)

SpecLong == Init /\ [][NextLong]_vars


(* Neighbor ranking: samples of one UE and one serving cell whose neighbor  *)
(* lists order the same cells differently, and a list that holds the        *)
(* serving cell (2) and a NaN                                               *)
PairsSwap == <<Real(20), Integer(3), Real(9), Integer(4), Real(15), Integer(5)>>
PairsServing == <<Real(30), Integer(2), Real(NaN), Integer(3), Real(9), Integer(4),
                  Real(7), Integer(5), Real(5), Integer(6)>>

RankReports ==
    { Report(<<Serv(1, 2, 10), Neigh(1, 2, Pairs3)>>),
      Report(<<Serv(1, 2, 10), Neigh(1, 2, PairsSwap)>>),
      Report(<<Serv(1, 2, 10), Neigh(1, 2, PairsServing)>>),
      Report(<<Serv(1, 3, 10), Neigh(1, 3, PairsSwap)>>) }

RankIndications ==
    [timestamp : {0, 5000000}, reports : {<<r>> : r \in RankReports}]

NextRank ==
    /\ indication_counter < MaxIndRank
    /\ \E ind \in RankIndications :
         \E ubc \in UbChoices(ind), q \in QsortChoices(ind), sendres \in SendChoices :
            sm_cb_kpm(ind, ubc, q, sendres)

SpecRank == Init /\ [][NextRank]_vars


-----------------------------------------------------------------------------
(* Properties of the adaptive-window engine, stated over the history of the *)
(* add_to_adaptive_window calls of the last callback (ingests)              *)

Min(a, b) == IF a < b THEN a ELSE b

(* the samples a window holds: buffer[0 .. count-1] *)
LiveBuffer(w) == SubSeq(w.buffer, 1, Min(w.count, Len(w.buffer)))

PreWindow(e) == e.pre[e.idx]
PostWindow(e) == e.post[e.idx]

SameCell(b, cell) == \A i \in 1..Len(b) : b[i].servingCellID = cell

MeanOf(b, F(_)) == <<SumSeq([i \in 1..Len(b) |-> F(b[i])]), Len(b)>>

(* rec carries the means over exactly the samples of b *)
RecordOver(rec, b) ==
    /\ rec.kind = "data"
    /\ rec.sids = [i \in 1..Len(b) |-> b[i].sid]
    /\ rec.serving = MeanOf(b, LAMBDA p : p.servingSINR)
    /\ \A j \in 1..3 : rec.neighbors[j] = MeanOf(b, LAMBDA p : p.neighborSINR[j])

(* the window holds N >= 1 samples, all of serving cell L, and the sample   *)
(* has serving cell L' # L                                                  *)
C1_Case(e) ==
    LET b == LiveBuffer(PreWindow(e))
    IN  /\ PreWindow(e).count >= 1
        /\ PreWindow(e).count = Len(PreWindow(e).buffer)
        /\ SameCell(b, b[1].servingCellID)
        /\ e.pt.servingCellID # b[1].servingCellID

(* C1: when a window holds N >= 1 samples all of serving cell L, ingesting  *)
(* one sample with serving cell L' # L emits exactly one record, for cell   *)
(* L, with the means over exactly those N samples; afterwards the window    *)
(* holds exactly the new sample, its current serving cell is L' and its     *)
(* start time is the new sample's timestamp.                                *)
C1_ServingChangeFlush ==
    \A k \in 1..Len(ingests) :
      LET e == ingests[k]
          b == LiveBuffer(PreWindow(e))
      IN  C1_Case(e) =>
            /\ Len(e.out) = 1
            /\ e.out[1].ue_id = e.pt.ueID
            /\ e.out[1].serving_cell = b[1].servingCellID
            /\ RecordOver(e.out[1], b)
            /\ PostWindow(e).count = 1
            /\ LiveBuffer(PostWindow(e)) = <<e.pt>>
            /\ PostWindow(e).current_serving_cell = e.pt.servingCellID
            /\ PostWindow(e).window_start_time = e.pt.timestamp

(* a serving change has flushed a window of two or more samples *)
C1_Witness ==
    \E k \in 1..Len(ingests) :
      /\ C1_Case(ingests[k])
      /\ PreWindow(ingests[k]).count >= 2
      /\ Len(ingests[k].out) = 1

NonDecreasing(b) == \A i \in 1..(Len(b) - 1) : b[i].timestamp <= b[i + 1].timestamp

(* the sample continues a run of same-serving-cell samples with             *)
(* non-decreasing timestamps held by the window (or starts one)             *)
C2_Case(e) ==
    LET b == LiveBuffer(PreWindow(e))
    IN  /\ PreWindow(e).count = Len(PreWindow(e).buffer)
        /\ SameCell(b, e.pt.servingCellID)
        /\ NonDecreasing(Append(b, e.pt))

(* C2: within a run of same-serving-cell samples with non-decreasing        *)
(* timestamps starting at t0, a sample with timestamp - t0 < 5000 ms emits  *)
(* no record and joins the run; the first sample with timestamp - t0 >=     *)
(* 5000 ms closes the window: exactly one record is emitted, its means are  *)
(* over all samples of the run including the closing one, and the window is *)
(* empty afterwards.                                                        *)
C2_TimeThreshold ==
    \A k \in 1..Len(ingests) :
      LET e == ingests[k]
          b == LiveBuffer(PreWindow(e))
          run == Append(b, e.pt)
          t0 == run[1].timestamp
      IN  C2_Case(e) =>
            IF e.pt.timestamp - t0 < WindowMs
            THEN /\ e.out = <<>>
                 /\ LiveBuffer(PostWindow(e)) = run
            ELSE /\ Len(e.out) = 1
                 /\ RecordOver(e.out[1], run)
                 /\ PostWindow(e).count = 0

RECURSIVE Concat(_, _)
Concat(ss, n) == IF n = 0 THEN <<>> ELSE Concat(ss, n - 1) \o ss[n]

(* the samples counted by the emitted records, and those still buffered *)
EmittedSids ==
    Concat([i \in 1..Len(console) |->
              IF console[i].kind = "data" THEN console[i].sids ELSE <<>>],
           Len(console))
BufferedSids ==
    Concat([i \in 1..Len(ue_windows) |->
              LET b == LiveBuffer(ue_windows[i])
              IN  [j \in 1..Len(b) |-> b[j].sid]],
           Len(ue_windows))

(* C3: every accepted serving sample is counted in exactly one emitted      *)
(* record or is still in an open window; none is dropped and none is        *)
(* counted twice.                                                           *)
C3_CountedOnce ==
    LET all == EmittedSids \o BufferedSids
    IN  /\ Len(all) = accepted
        /\ {all[i] : i \in 1..Len(all)} = 1..accepted

(* C4: ingesting a sample for UE B leaves the window of every other UE A    *)
(* unchanged (buffer, count, serving cell, start time) and emits no record  *)
(* for A.                                                                   *)
C4_NoCrossUe ==
    \A k \in 1..Len(ingests) :
      LET e == ingests[k]
      IN  /\ Len(e.post) = Len(e.pre)
          /\ \A j \in 1..Len(e.pre) : j # e.idx => e.post[j] = e.pre[j]
          /\ \A r \in 1..Len(e.out) : e.out[r].ue_id = e.pt.ueID


(* a serving or neighbor tuple whose parsed UE id or cell id is UINT16_MAX *)
IsSentinelTuple(item) ==
    /\ item.type = "NAME"
    /\ \/ /\ item.name.prefix = "serv"
          /\ \/ parseServingMsg(item.name).cellID = UINT16_MAX
             \/ parseServingMsg(item.name).ueID = UINT16_MAX
       \/ /\ item.name.prefix = "neigh"
          /\ \/ parseNeighMsg(item.name).cellID = UINT16_MAX
             \/ parseNeighMsg(item.name).ueID = UINT16_MAX

(* the indication with every sentinel tuple replaced by an entry that is    *)
(* not a named measurement                                                  *)
NoItem == [type |-> "ID", name |-> [prefix |-> "", t1 |-> <<>>, sep |-> FALSE, t2 |-> <<>>],
           records |-> <<>>]
WithoutSentinels(ind) ==
    [ind EXCEPT !.reports =
        [i \in 1..Len(ind.reports) |->
            [ind.reports[i] EXCEPT !.items =
                [j \in 1..Len(ind.reports[i].items) |->
                    IF IsSentinelTuple(ind.reports[i].items[j]) THEN NoItem
                    ELSE ind.reports[i].items[j]]]]]

HasSentinel(ind, prefix) ==
    \E i \in 1..Len(ind.reports) :
      \E j \in 1..Len(ind.reports[i].items) :
        /\ IsSentinelTuple(ind.reports[i].items[j])
        /\ ind.reports[i].items[j].name.prefix = prefix

(* C10: a serving or neighbor tuple whose parsed UE id or cell id is        *)
(* UINT16_MAX creates no UE window, changes no existing window and causes   *)
(* no record to be emitted: a callback leaves the table, the calls of       *)
(* add_to_adaptive_window and the emitted lines exactly as the same         *)
(* indication without its sentinel tuples does, and no sample or window     *)
(* carries the sentinel id.                                                 *)
C10_SentinelNoOp ==
    [][ /\ \E ubc \in UbOutcomes, q \in 0..1 :
             LET st == MaCallback(WithoutSentinels(last_ind'), ubc, q)
             IN  /\ ue_windows' = st.w
                 /\ active_ue_count' = st.n
                 /\ ingests' = st.log
                 /\ console' = console \o st.lines
        /\ \A i \in 1..Len(ue_windows') : ue_windows'[i].ue_id # UINT16_MAX
        /\ \A k \in 1..Len(ingests') :
             /\ ingests'[k].pt.ueID # UINT16_MAX
             /\ ingests'[k].pt.servingCellID # UINT16_MAX ]_vars

(* a callback has processed a report holding a sentinel serving tuple, a    *)
(* sentinel neighbor tuple and a valid serving tuple                        *)
C10_Witness ==
    /\ HasSentinel(last_ind, "serv")
    /\ HasSentinel(last_ind, "neigh")
    /\ Len(ingests) = 1
    /\ pstate = "run"


-----------------------------------------------------------------------------
(* ue_localization_MA_v2.c, sequence-synchronized variant: the burst clock  *)

(* burst_sequence_assigned has TOTAL_UES elements, indices 0..27; index 28  *)
(* (UE id 28, and the last round of the clearing loop) is the byte behind   *)
(* the array.  What lies there is decided by the build:                     *)
(*   "pad"    a byte no other object uses                                   *)
(*   "count"  the low byte of current_burst_ue_count (little endian)        *)
Layouts == {"pad", "count"}

(* the burst clock as one record *)
BurstClock ==
    [seq |-> current_sequence_timestamp,
     count |-> current_burst_ue_count,
     flags |-> burst_sequence_assigned,
     pad |-> pad_byte,
     ts |-> ue_sequence_timestamps]

(* burst_sequence_assigned[i] read as bool, for i in 0..TOTAL_UES *)
ReadAssigned(b, i, lay) ==
    IF i < TOTAL_UES THEN b.flags[i]
    ELSE IF lay = "pad" THEN b.pad # 0
    ELSE b.count % 256 # 0

(* burst_sequence_assigned[i] = v, for i in 0..TOTAL_UES *)
WriteAssigned(b, i, v, lay) ==
    LET byte == IF v THEN 1 ELSE 0
    IN  IF i < TOTAL_UES THEN [b EXCEPT !.flags[i] = v]
        ELSE IF lay = "pad" THEN [b EXCEPT !.pad = byte]
        ELSE [b EXCEPT !.count = (b.count - (b.count % 256)) + byte]

(* for (i = 0; i <= TOTAL_UES; i++) burst_sequence_assigned[i] = false *)
RECURSIVE ClearAssigned(_, _, _)
ClearAssigned(b, i, lay) ==
    IF i > TOTAL_UES THEN b
    ELSE ClearAssigned(WriteAssigned(b, i, FALSE, lay), i + 1, lay)

(* assign_sequence_timestamp(ue_id), for ue_id in 0..TOTAL_UES: the clock   *)
(* after the call and the value returned                                    *)
assign_sequence_timestamp(b, ue_id, lay) ==
    IF ReadAssigned(b, ue_id, lay)
    THEN [b |-> b, ret |-> b.ts[ue_id]]
    ELSE LET b1 == [b EXCEPT !.ts[ue_id] = b.seq]
             b2 == WriteAssigned(b1, ue_id, TRUE, lay)
             b3 == [b2 EXCEPT !.count = b2.count + 1]
             b4 == IF b3.count >= TOTAL_UES
                   THEN ClearAssigned([b3 EXCEPT !.seq = b3.seq + 1, !.count = 0],
                                      0, lay)
                   ELSE b3
         IN  [b |-> b4, ret |-> b4.ts[ue_id]]

SetBurstClock(b) ==
    /\ current_sequence_timestamp' = b.seq
    /\ current_burst_ue_count' = b.count
    /\ burst_sequence_assigned' = b.flags
    /\ pad_byte' = b.pad
    /\ ue_sequence_timestamps' = b.ts

(* Arrival orders of the cohort: UE ids 1..TOTAL_UES ascending or           *)
(* descending; env.pos UEs of the current round have arrived.               *)
Orders == {"asc", "desc"}
OrderedUe(o, k) == IF o = "asc" THEN k ELSE TOTAL_UES + 1 - k
OrderChoices == IF env.pos = 0 THEN Orders ELSE {env.order}
Advance(o) ==
    [env EXCEPT !.order = o,
                !.pos = (env.pos + 1) % TOTAL_UES,
                !.ticks = IF env.pos + 1 = TOTAL_UES THEN env.ticks + 1 ELSE env.ticks]

restOfSeqVars == <<ue_buffers, num_active_ues, layout, seq_indication_counter,
                   seq_log_file, seq_log_file_open, seq_socket_connected,
                   seq_sock_out, seq_pstate, seq_events, seq_last_ind,
                   seq_accepted, seq_send_log>>

(* one direct call assign_sequence_timestamp(ue_id) *)
AssignCall(ue_id) ==
    LET r == assign_sequence_timestamp(BurstClock, ue_id, layout)
    IN  /\ SetBurstClock(r.b)
        /\ assign_log' = Append(assign_log,
                                [ue |-> ue_id, ret |-> r.ret,
                                 changed |-> r.b # BurstClock])

(* the next UE of the round calls *)
AssignNew ==
    /\ Len(assign_log) < MaxAssignCalls
    /\ \E o \in OrderChoices :
         /\ AssignCall(OrderedUe(o, env.pos + 1))
         /\ env' = Advance(o)
    /\ UNCHANGED <<maVars, restOfSeqVars, ivVars, sortVars, ccVars, shVars, csvVars, v1Vars, prbVars>>

(* a UE that has already called in this round calls again: the first or    *)
(* the latest of the round                                                  *)
AssignDup ==
    /\ Len(assign_log) < MaxAssignCalls
    /\ env.pos >= 1
    /\ env.dups < MaxDup
    /\ \E k \in {1, env.pos} : AssignCall(OrderedUe(env.order, k))
    /\ env' = [env EXCEPT !.dups = env.dups + 1]
    /\ UNCHANGED <<maVars, restOfSeqVars, ivVars, sortVars, ccVars, shVars, csvVars, v1Vars, prbVars>>

InitAssign ==
    /\ InitMaVars(TRUE, FALSE)
    /\ \E lay \in Layouts : InitSeqVars(lay)
    /\ InitIvVars
    /\ InitCcVars
    /\ InitShVars
    /\ InitMonitorVars
    /\ InitSortVars

NextAssign == AssignNew \/ AssignDup

SpecAssign == InitAssign /\ [][NextAssign]_vars

(* the calls seen so far against the burst clock of the specification: s    *)
(* is the sequence of the open burst, rec the UEs recorded in it            *)
C6_Step(a, e) ==
    LET was == e.ue \in a.rec
        rec1 == a.rec \cup {e.ue}
        full == Cardinality(rec1) = TOTAL_UES
    IN  [s |-> IF full THEN a.s + 1 ELSE a.s,
         rec |-> IF full THEN {} ELSE rec1,
         ok |-> a.ok /\ e.ret = a.s /\ (was => ~e.changed)]

(* C6: a call for a UE already recorded in the current burst returns the    *)
(* sequence of its first call in that burst and changes no burst state;     *)
(* the calls of the TOTAL_UES distinct UEs of one burst all return the same *)
(* sequence s, and the first call after the last of them was registered     *)
(* returns s + 1.                                                           *)
C6_AssignSequence ==
    FoldSeq(C6_Step, [s |-> 0, rec |-> {}, ok |-> TRUE], assign_log).ok


-----------------------------------------------------------------------------
(* ue_localization_MA_v2.c, sequence-synchronized variant: the UE buffers   *)

(* cell_positions[] of this translation unit *)
seq_get_cell_position(cellID) ==
    CASE cellID = 2 -> <<800, 800>>
      [] cellID = 3 -> <<1300, 800>>
      [] cellID = 4 -> <<1050, 1233>>
      [] cellID = 5 -> <<550, 1233>>
      [] cellID = 6 -> <<300, 800>>
      [] cellID = 7 -> <<550, 366>>
      [] cellID = 8 -> <<1050, 366>>
      [] OTHER -> <<>>

(* One element of measurement_history.  neighbor_ids and neighbor_sinrs are *)
(* kept as the elements 0 .. active_neighbor_count-1, the only ones read.   *)
(* History fields: sid numbers the serving sample, tick counts the serving  *)
(* samples of this UE, offered lists every (id, SINR) pair handed to        *)
(* add_neighbor_sample for this element.                                    *)
ZeroHistory ==
    [serving_sinr |-> 0, neighbor_sinrs |-> <<>>, neighbor_ids |-> <<>>,
     active_neighbor_count |-> 0, timestamp |-> 0,
     sid |-> 0, tick |-> 0, offered |-> <<>>]

(* the ue_buffer_t get_or_create_ue_buffer leaves after memset *)
NewUeBuffer(ueID) ==
    [ueID |-> ueID, servingCellID |-> 0,
     measurement_history |-> [k \in 0..(WINDOW_SIZE - 1) |-> ZeroHistory],
     history_idx |-> 0, history_count |-> 0, last_timestamp |-> 0,
     samples |-> 0]

(* get_or_create_ue_buffer: the table after the call and the index of the   *)
(* buffer (1-based), 0 for NULL                                             *)
get_or_create_ue_buffer(S, ueID) ==
    LET hits == {i \in 1..S.n : S.bufs[i].ueID = ueID}
    IN  IF hits # {}
        THEN [S |-> S, idx |-> CHOOSE i \in hits : \A j \in hits : i <= j]
        ELSE IF S.n < MaxUeBuffers
        THEN [S |-> [S EXCEPT !.bufs = Append(S.bufs, NewUeBuffer(ueID)),
                              !.n = S.n + 1],
              idx |-> S.n + 1]
        ELSE [S |-> S, idx |-> 0]

add_serving_sample(ue_buf, cellID, sinr, timestamp, sid) ==
    [ue_buf EXCEPT
        !.servingCellID = cellID,
        !.last_timestamp = timestamp,
        !.measurement_history[ue_buf.history_idx] =
            [serving_sinr |-> sinr, neighbor_sinrs |-> <<>>, neighbor_ids |-> <<>>,
             active_neighbor_count |-> 0, timestamp |-> 0,
             sid |-> sid, tick |-> ue_buf.samples + 1, offered |-> <<>>],
        !.history_idx = (ue_buf.history_idx + 1) % WINDOW_SIZE,
        !.history_count = IF ue_buf.history_count < WINDOW_SIZE
                          THEN ue_buf.history_count + 1
                          ELSE ue_buf.history_count,
        !.samples = ue_buf.samples + 1]

add_neighbor_sample(ue_buf, neighCellID, sinr) ==
    LET current_idx == (ue_buf.history_idx - 1 + WINDOW_SIZE) % WINDOW_SIZE
        h == ue_buf.measurement_history[current_idx]
        h1 == [h EXCEPT !.offered = Append(h.offered,
                                           [cellID |-> neighCellID, sinr |-> sinr])]
    IN  IF neighCellID = ue_buf.servingCellID
        THEN [ue_buf EXCEPT !.measurement_history[current_idx] = h1]
        ELSE IF h.active_neighbor_count < MaxNeighbors
        THEN [ue_buf EXCEPT !.measurement_history[current_idx] =
                 [h1 EXCEPT !.neighbor_ids = Append(h.neighbor_ids, neighCellID),
                            !.neighbor_sinrs = Append(h.neighbor_sinrs, sinr),
                            !.active_neighbor_count = h.active_neighbor_count + 1]]
        ELSE [ue_buf EXCEPT !.measurement_history[current_idx] = h1]

(* the test of the collecting loop of check_and_send_ue_data, without the   *)
(* isnan test                                                               *)
SkipNeighbor_no_nan_test(servingCellID, neighID, neighSINR) ==
    neighID = servingCellID \/ neighID = 0

(* the test of the collecting loop of check_and_send_ue_data: continue *)
SkipNeighbor(servingCellID, neighID, neighSINR) ==
    neighID = servingCellID \/ IsNaN(neighSINR) \/ neighID = 0

(* the collecting loop: neighbors[0 .. neighbor_count-1] *)
CollectValid(ue_buf, h) ==
    LET Step(acc, i) ==
            IF Len(acc) < MaxNeighbors
               /\ ~SkipNeighbor(ue_buf.servingCellID, h.neighbor_ids[i],
                                h.neighbor_sinrs[i])
            THEN LET pos == seq_get_cell_position(h.neighbor_ids[i])
                 IN  Append(acc, [cellID |-> h.neighbor_ids[i],
                                  sinr |-> h.neighbor_sinrs[i],
                                  x |-> IF pos = <<>> THEN 0 ELSE pos[1],
                                  y |-> IF pos = <<>> THEN 0 ELSE pos[2]])
            ELSE acc
    IN  FoldSeq(Step, <<>>, [i \in 1..h.active_neighbor_count |-> i])

(* the two nested loops that order neighbors[] by descending sinr *)
RECURSIVE SortInner(_, _, _)
SortInner(a, i, j) ==
    IF j > Len(a) THEN a
    ELSE SortInner(IF DLess(a[i].sinr, a[j].sinr)
                   THEN [a EXCEPT ![i] = a[j], ![j] = a[i]]
                   ELSE a,
                   i, j + 1)

RECURSIVE SortOuter(_, _)
SortOuter(a, i) ==
    IF i >= Len(a) THEN a ELSE SortOuter(SortInner(a, i, i + 1), i + 1)

(* the test that lets a record be written, always true *)
EnoughNeighbors_always(neighbor_count) == TRUE

(* the test that lets a record be written *)
EnoughNeighbors(neighbor_count) == ~(neighbor_count < MIN_NEIGHBORS_REQUIRED)

(* check_and_send_ue_data: <<>> or the one line written, as the arguments   *)
(* of snprintf.  sid and tick are history fields naming the sample.         *)
check_and_send_ue_data(ue_buf, sequence_timestamp) ==
    LET current_idx == (ue_buf.history_idx - 1 + WINDOW_SIZE) % WINDOW_SIZE
        h == ue_buf.measurement_history[current_idx]
        neighbors == SortOuter(CollectValid(ue_buf, h), 1)
        neighbor_count == Len(neighbors)
        valid_count == IF neighbor_count > 3 THEN 3 ELSE neighbor_count
        serving_pos == seq_get_cell_position(ue_buf.servingCellID)
    IN  IF IsNaN(h.serving_sinr) THEN <<>>
        ELSE IF ~EnoughNeighbors(neighbor_count) THEN <<>>
        ELSE <<[kind |-> "data",
                sequence_timestamp |-> sequence_timestamp,
                ue_id |-> ue_buf.ueID,
                serving_cell |-> ue_buf.servingCellID,
                serving_x |-> IF serving_pos = <<>> THEN 0 ELSE serving_pos[1],
                serving_y |-> IF serving_pos = <<>> THEN 0 ELSE serving_pos[2],
                serving_sinr |-> h.serving_sinr,
                top3 |-> [i \in 1..3 |->
                            IF i <= valid_count THEN neighbors[i]
                            ELSE [cellID |-> 0, sinr |-> 0, x |-> 0, y |-> 0]],
                sid |-> h.sid,
                tick |-> h.tick]>>


(* first loop of log_kpm_measurements: one serving tuple.  S is             *)
(*   S.bufs, S.n   ue_buffers, num_active_ues                               *)
(*   S.b           the burst clock                                          *)
(*   S.out         the lines written so far in this callback                *)
(*   S.events      history of the check_and_send_ue_data calls              *)
(*   S.acc         serving samples stored so far, S.abort the assert        *)
seq_ServingItem(S, item, timestamp) ==
    IF ~ServingAccepted(item) THEN S
    ELSE LET info == parseServingMsg(item.name)
             g == get_or_create_ue_buffer(S, info.ueID)
         IN  IF g.idx = 0 THEN g.S
             ELSE [g.S EXCEPT
                     !.bufs[g.idx] = add_serving_sample(g.S.bufs[g.idx], info.cellID,
                                                        item.records[1].v, timestamp,
                                                        S.acc + 1),
                     !.acc = S.acc + 1]

(* the pairs (SINR, neighbor id) at positions j, j+1 of one record list *)
RECURSIVE seq_AddPairs(_, _, _)
seq_AddPairs(ue_buf, records, j) ==
    IF j + 1 > Len(records) THEN ue_buf
    ELSE LET sinr == records[j]
             neighID == records[j + 1]
         IN  seq_AddPairs(IF sinr.value = "REAL" /\ neighID.value = "INTEGER"
                          THEN add_neighbor_sample(ue_buf, U16(neighID.v), sinr.v)
                          ELSE ue_buf,
                          records, j + 2)

(* second loop of log_kpm_measurements: one neighbor tuple *)
seq_NeighborItem(S, item) ==
    IF ~NeighborAccepted(item) THEN S
    ELSE LET info == parseNeighMsg(item.name)
             g == get_or_create_ue_buffer(S, info.ueID)
         IN  IF g.idx = 0 THEN g.S
             ELSE [g.S EXCEPT
                     !.bufs[g.idx] = seq_AddPairs(g.S.bufs[g.idx], item.records, 1)]

(* third loop of log_kpm_measurements: every UE buffer with a sample gets   *)
(* a sequence and is handed to check_and_send_ue_data                       *)
seq_SendItem(S, i, lay) ==
    IF ~(S.bufs[i].history_count > 0) THEN S
    ELSE LET r == assign_sequence_timestamp(S.b, S.bufs[i].ueID, lay)
             line == check_and_send_ue_data(S.bufs[i], r.ret)
         IN  [S EXCEPT !.b = r.b,
                       !.out = S.out \o line,
                       !.events = Append(S.events,
                                         [ue_buf |-> S.bufs[i], seq_ts |-> r.ret,
                                          out |-> line])]

seq_log_kpm_measurements(S, report, timestamp, lay) ==
    IF Len(report.items) = 0 THEN [S EXCEPT !.abort = TRUE]   \* assert
    ELSE IF Len(report.items) # report.data_len THEN S
    ELSE LET S1 == FoldSeq(LAMBDA a, item : seq_ServingItem(a, item, timestamp),
                           S, report.items)
             S2 == FoldSeq(seq_NeighborItem, S1, report.items)
         IN  FoldSeq(LAMBDA a, i : seq_SendItem(a, i, lay), S2,
                     [i \in 1..S2.n |-> i])

(* the loop of sm_cb_kpm over meas_report_per_ue *)
RECURSIVE seq_ReportLoop(_, _, _, _, _)
seq_ReportLoop(S, reports, i, timestamp, lay) ==
    IF i > Len(reports) \/ S.abort THEN S
    ELSE seq_ReportLoop(seq_log_kpm_measurements(S, reports[i], timestamp, lay),
                        reports, i + 1, timestamp, lay)

(* sm_cb_kpm of the sequence variant: one indication under the mutex.  The  *)
(* header goes to log_file only; every line of check_and_send_ue_data goes  *)
(* to log_file if it is open and to send() if socket_connected, whose       *)
(* result is not looked at.                                                 *)
seq_sm_cb_kpm(ind, sendres) ==
    /\ seq_pstate = "run"
    /\ LET S0 == [bufs |-> ue_buffers, n |-> num_active_ues, b |-> BurstClock,
                  out |-> <<>>, events |-> <<>>, acc |-> seq_accepted,
                  abort |-> FALSE]
           S == seq_ReportLoop(S0, ind.reports, 1, ind.timestamp, layout)
           header == IF seq_indication_counter = 0 THEN <<HeaderLine>> ELSE <<>>
       IN  /\ ue_buffers' = S.bufs
           /\ num_active_ues' = S.n
           /\ SetBurstClock(S.b)
           /\ seq_indication_counter' = seq_indication_counter + 1
           /\ seq_log_file' = IF seq_log_file_open
                              THEN seq_log_file \o header \o S.out
                              ELSE seq_log_file
           /\ seq_sock_out' = IF seq_socket_connected
                              THEN seq_sock_out \o S.out
                              ELSE seq_sock_out
           /\ seq_send_log' = IF seq_socket_connected
                              THEN seq_send_log \o SendCalls(S.out, sendres)
                              ELSE seq_send_log
           /\ seq_pstate' = IF S.abort THEN "aborted" ELSE "run"
           /\ seq_events' = S.events
           /\ seq_last_ind' = ind
           /\ seq_accepted' = S.acc
    /\ UNCHANGED <<layout, seq_log_file_open, seq_socket_connected>>
    /\ UNCHANGED <<maVars, ivVars, sortVars, ccVars, shVars, csvVars, v1Vars, prbVars>>

-----------------------------------------------------------------------------
(* Inputs of the sequence variant *)

Pairs4 == <<Real(12), Integer(3), Real(9), Integer(4), Real(15), Integer(5),
            Real(7), Integer(6)>>
(* the serving cell (3), a NaN, the id 0 and two equal values *)
PairsMixed == <<Real(14), Integer(3), Real(NaN), Integer(4), Real(11), Integer(5),
                Real(8), Integer(0), Real(13), Integer(6), Real(13), Integer(7),
                Real(5), Integer(8)>>
Pairs2 == <<Real(10), Integer(3), Real(9), Integer(4)>>
PairsMore == <<Real(6), Integer(5), Real(20), Integer(2)>>

(* every name of this report parses to UINT16_MAX *)
SentinelReport ==
    Report(<<ServNoCell(30), ServMinusOne(1, 10), ServNoUe(2, 10),
             NeighNoCell(2, Pairs3)>>)

SeqReports ==
    { Report(<<Serv(1, 2, 10), Neigh(1, 2, Pairs4)>>),
      Report(<<Serv(1, 3, 20), Neigh(1, 3, PairsMixed)>>),
      Report(<<Serv(2, 2, 5), Neigh(2, 2, Pairs2)>>),
      Report(<<Neigh(2, 2, PairsMore)>>),
      Report(<<Serv(2, 4, NaN), Neigh(2, 4, Pairs3)>>),
      SentinelReport }

SeqIndications == [timestamp : {100000}, reports : {<<r>> : r \in SeqReports}]

InitSeq ==
    /\ InitMaVars(TRUE, FALSE)
    /\ \E lay \in Layouts : InitSeqVars(lay)
    /\ InitIvVars
    /\ InitCcVars
    /\ InitShVars
    /\ InitMonitorVars
    /\ InitSortVars

NextSeq ==
    /\ seq_indication_counter < MaxIndSeq
    /\ \E ind \in SeqIndications, sendres \in V2SendResults :
         seq_sm_cb_kpm(ind, sendres)
    /\ UNCHANGED <<assign_log, env>>

SpecSeq == InitSeq /\ [][NextSeq]_vars

(* The cohort regime: in every tick each of the TOTAL_UES UEs sends one     *)
(* report, with a serving tuple and a neighbor list of four valid cells,    *)
(* one indication per report, in ascending or descending order of UE id.    *)
TickReport(ue, tick) ==
    Report(<<Serv(ue, 2, 10 + tick), Neigh(ue, 2, Pairs4)>>)

NextTick ==
    /\ env.ticks < MaxTicks
    /\ \E o \in OrderChoices :
         /\ seq_sm_cb_kpm([timestamp |-> 100000 * (env.ticks + 1),
                           reports |-> <<TickReport(OrderedUe(o, env.pos + 1),
                                                    env.ticks + 1)>>], "ok")
         /\ env' = Advance(o)
    /\ UNCHANGED assign_log

SpecTick == InitSeq /\ [][NextTick]_vars


-----------------------------------------------------------------------------
(* Properties of the sequence-synchronized variant *)

DataLines(file) == {i \in 1..Len(file) : file[i].kind = "data"}

(* C5: when each of the TOTAL_UES UEs reports exactly once per tick, all    *)
(* records emitted for the samples of one tick carry the same sequence      *)
(* number, and the sequence number used for tick t+1 is exactly one more    *)
(* than the one used for tick t.                                            *)
C5_OneSequencePerTick ==
    LET used == {<<seq_log_file[i].tick, seq_log_file[i].sequence_timestamp>> :
                    i \in DataLines(seq_log_file)}
    IN  \A p \in used, q \in used :
          /\ p[1] = q[1] => p[2] = q[2]
          /\ q[1] = p[1] + 1 => q[2] = p[2] + 1

(* C7: each accepted serving sample is written to the output in at most     *)
(* one record; a report of UE B never emits again a record for the sample   *)
(* of another UE A.                                                         *)
C7_AtMostOneRecord ==
    \A i \in DataLines(seq_log_file), j \in DataLines(seq_log_file) :
      seq_log_file[i].sid = seq_log_file[j].sid => i = j

(* the sample a check_and_send_ue_data call looks at *)
LatestSample(ue_buf) ==
    ue_buf.measurement_history[(ue_buf.history_idx - 1 + WINDOW_SIZE) % WINDOW_SIZE]

(* the candidates of a sample that remain after removing those of the       *)
(* serving cell, those with NaN SINR and those with cell id 0, as indices   *)
(* into the list of candidates                                              *)
ValidCandidates(ue_buf) ==
    LET c == LatestSample(ue_buf).offered
    IN  {k \in 1..Len(c) : /\ c[k].cellID # ue_buf.servingCellID
                           /\ ~IsNaN(c[k].sinr)
                           /\ c[k].cellID # 0}

C9_MinNeighbors ==
    \A k \in 1..Len(seq_events) :
      LET e == seq_events[k]
      IN  /\ Cardinality(ValidCandidates(e.ue_buf)) < MIN_NEIGHBORS_REQUIRED
               => e.out = <<>>
          /\ e.out # <<>> => \A i \in 1..3 : e.out[1].top3[i].cellID # 0

(* a sample with a serving SINR and two valid neighbors was handed to       *)
(* check_and_send_ue_data and no record was written                         *)
C9_Witness ==
    \E k \in 1..Len(seq_events) :
      LET e == seq_events[k]
      IN  /\ Cardinality(ValidCandidates(e.ue_buf)) = 2
          /\ ~IsNaN(LatestSample(e.ue_buf).serving_sinr)
          /\ e.out = <<>>


(* every tuple of every report of the indication is a sentinel tuple *)
AllSentinel(ind) ==
    /\ Len(ind.reports) > 0
    /\ \A i \in 1..Len(ind.reports) :
         \A j \in 1..Len(ind.reports[i].items) :
           IsSentinelTuple(ind.reports[i].items[j])

(* C11: in the sequence-synchronized variant a measurement report whose     *)
(* tuples all carry the sentinel UE or cell id creates no UE buffer, emits  *)
(* no record for any UE and leaves the burst clock (current sequence, seen  *)
(* count, per-UE flags) unchanged.                                          *)
C11_SentinelReportNoOp ==
    [][ (seq_indication_counter' # seq_indication_counter
         /\ AllSentinel(seq_last_ind'))
        => /\ num_active_ues' = num_active_ues
           /\ Len(ue_buffers') = Len(ue_buffers)
           /\ DataLines(seq_log_file') = DataLines(seq_log_file)
           /\ seq_sock_out' = seq_sock_out
           /\ current_sequence_timestamp' = current_sequence_timestamp
           /\ current_burst_ue_count' = current_burst_ue_count
           /\ burst_sequence_assigned' = burst_sequence_assigned ]_vars

-----------------------------------------------------------------------------
(* Further properties of the adaptive-window engine *)

(* every live sample of the window has the window's current_serving_cell *)
UniformWindow(w) ==
    w.count > 0 =>
      \A k \in 1..Len(LiveBuffer(w)) :
        LiveBuffer(w)[k].servingCellID = w.current_serving_cell

(* C12: in every reachable state each non-empty window's                    *)
(* current_serving_cell equals the serving cell of its first buffered       *)
(* sample and of every other buffered sample; current_serving_cell of a     *)
(* window changes only in a call that finds the window empty, empties it or *)
(* replaces its content by the one new sample.                              *)
C12_ServingCellOfWindow ==
    /\ \A i \in 1..Len(ue_windows) : UniformWindow(ue_windows[i])
    /\ \A k \in 1..Len(ingests) :
         LET e == ingests[k]
         IN  \A j \in 1..Len(e.pre) :
               e.post[j].current_serving_cell # e.pre[j].current_serving_cell
               => /\ j = e.idx
                  /\ \/ e.pre[j].count = 0
                     \/ e.post[j].count = 0
                     \/ e.post[j].buffer = <<e.pt>>

-----------------------------------------------------------------------------
(* ue_localization_MA_v2.c, 5-second-interval variant                       *)

(* cell_positions[] of this translation unit *)
iv_get_cell_position(cellID) ==
    CASE cellID = 2 -> <<800, 800>>
      [] cellID = 3 -> <<1200, 800>>
      [] cellID = 4 -> <<1000, 1146>>
      [] cellID = 5 -> <<600, 1146>>
      [] cellID = 6 -> <<400, 800>>
      [] cellID = 7 -> <<600, 453>>
      [] cellID = 8 -> <<1000, 453>>
      [] OTHER -> <<>>

(* the ue_buffer_t get_or_create_ue_buffer leaves after memset.  neighbors  *)
(* holds the elements 0 .. active_neighbors-1, the only ones read.  History *)
(* fields: samples lists the serving samples added to serving_sinr_sum and  *)
(* offered the (id, SINR) pairs handed to add_neighbor_sinr_to_buffer since *)
(* the sums were last cleared.                                              *)
IvNewUeBuffer(ueID) ==
    [ueID |-> ueID, servingCellID |-> 0,
     serving_sinr_sum |-> 0, serving_sinr_count |-> 0,
     neighbors |-> <<>>, active_neighbors |-> 0,
     has_data |-> FALSE, first_timestamp |-> 0, last_timestamp |-> 0,
     samples |-> <<>>, offered |-> <<>>]

(* get_or_create_ue_buffer: the table after the call and the index of the   *)
(* buffer (1-based), 0 for NULL                                             *)
iv_get_or_create_ue_buffer(T, ueID) ==
    LET hits == {i \in 1..T.n : T.bufs[i].ueID = ueID}
    IN  IF hits # {}
        THEN [T |-> T, idx |-> CHOOSE i \in hits : \A j \in hits : i <= j]
        ELSE IF T.n < IvMaxUeBuffers
        THEN [T |-> [T EXCEPT !.bufs = Append(T.bufs, IvNewUeBuffer(ueID)),
                              !.n = T.n + 1],
              idx |-> T.n + 1]
        ELSE [T |-> T, idx |-> 0]

add_serving_sinr_to_buffer(ue_buf, cellID, sinr, timestamp) ==
    [ue_buf EXCEPT
        !.servingCellID = cellID,
        !.serving_sinr_sum = DAdd(ue_buf.serving_sinr_sum, sinr),
        !.serving_sinr_count = ue_buf.serving_sinr_count + 1,
        !.first_timestamp = IF ~ue_buf.has_data THEN timestamp
                            ELSE ue_buf.first_timestamp,
        !.has_data = TRUE,
        !.last_timestamp = timestamp,
        !.samples = Append(ue_buf.samples, [cellID |-> cellID, sinr |-> sinr])]

add_neighbor_sinr_to_buffer(ue_buf, neighCellID, sinr) ==
    LET hits == {i \in 1..ue_buf.active_neighbors :
                    ue_buf.neighbors[i].neighCellID = neighCellID}
        b1 == [ue_buf EXCEPT !.offered = Append(ue_buf.offered,
                                 [cellID |-> neighCellID, sinr |-> sinr])]
    IN  IF hits # {}
        THEN LET i == CHOOSE x \in hits : \A y \in hits : x <= y
             IN  [b1 EXCEPT !.neighbors[i].sinr_sum =
                                DAdd(ue_buf.neighbors[i].sinr_sum, sinr),
                            !.neighbors[i].sinr_count =
                                ue_buf.neighbors[i].sinr_count + 1]
        ELSE IF ue_buf.active_neighbors < IvMaxNeighbors
        THEN [b1 EXCEPT !.neighbors = Append(ue_buf.neighbors,
                                             [neighCellID |-> neighCellID,
                                              sinr_sum |-> sinr, sinr_count |-> 1]),
                        !.active_neighbors = ue_buf.active_neighbors + 1]
        ELSE b1

(* the line process_and_send_averaged_data writes for one buffer, as the    *)
(* arguments of snprintf; an average is kept as <<sum, count>>              *)
IvRecord(ue_buf, current_simulation_time) ==
    LET serving_pos == iv_get_cell_position(ue_buf.servingCellID)
        Filled(n) == n <= ue_buf.active_neighbors
                     /\ ue_buf.neighbors[n].sinr_count > 0
    IN  [kind |-> "data",
         timestamp |-> current_simulation_time \div 1000,
         ue_id |-> ue_buf.ueID,
         serving_cell |-> ue_buf.servingCellID,
         serving |-> <<ue_buf.serving_sinr_sum, ue_buf.serving_sinr_count>>,
         neighbor_ids |-> [n \in 1..3 |->
             IF Filled(n) THEN ue_buf.neighbors[n].neighCellID ELSE 0],
         neighbor_sinr |-> [n \in 1..3 |->
             IF Filled(n) THEN <<ue_buf.neighbors[n].sinr_sum,
                                 ue_buf.neighbors[n].sinr_count>>
             ELSE <<0, 1>>],
         x |-> IF serving_pos = <<>> THEN 0 ELSE serving_pos[1],
         y |-> IF serving_pos = <<>> THEN 0 ELSE serving_pos[2]]

(* the second loop of process_and_send_averaged_data *)
IvClearBuffer(ue_buf) ==
    [ue_buf EXCEPT !.serving_sinr_sum = 0, !.serving_sinr_count = 0,
                   !.neighbors = <<>>, !.active_neighbors = 0,
                   !.has_data = FALSE,
                   !.samples = <<>>, !.offered = <<>>]

(* process_and_send_averaged_data on the state record                       *)
(*   T.bufs, T.n   ue_buffers, num_active_ues                               *)
(*   T.last        last_prediction_time                                     *)
(*   T.out         the lines written so far in this callback                *)
(*   T.events      history: [ue_buf, out] for every line written            *)
process_and_send_averaged_data(T, current_simulation_time) ==
    LET Emit(a, i) ==
            IF ~T.bufs[i].has_data \/ T.bufs[i].serving_sinr_count = 0 THEN a
            ELSE LET line == IvRecord(T.bufs[i], current_simulation_time)
                 IN  [a EXCEPT !.out = Append(a.out, line),
                               !.events = Append(a.events,
                                                 [ue_buf |-> T.bufs[i],
                                                  out |-> line])]
        T1 == FoldSeq(Emit, T, [i \in 1..T.n |-> i])
    IN  [T1 EXCEPT !.bufs = [i \in 1..T.n |-> IvClearBuffer(T.bufs[i])]]

(* first loop of log_kpm_measurements: one serving tuple *)
iv_ServingItem(T, item, timestamp) ==
    IF ~ServingAccepted(item) THEN T
    ELSE LET info == parseServingMsg(item.name)
             g == iv_get_or_create_ue_buffer(T, info.ueID)
         IN  IF g.idx = 0 THEN g.T
             ELSE [g.T EXCEPT
                     !.bufs[g.idx] =
                         add_serving_sinr_to_buffer(g.T.bufs[g.idx], info.cellID,
                                                    item.records[1].v, timestamp)]

(* the pairs (SINR, neighbor id) at positions j, j+1 of one record list *)
RECURSIVE iv_AddPairs(_, _, _)
iv_AddPairs(ue_buf, records, j) ==
    IF j + 1 > Len(records) THEN ue_buf
    ELSE LET sinr == records[j]
             neighID == records[j + 1]
         IN  iv_AddPairs(IF sinr.value = "REAL" /\ neighID.value = "INTEGER"
                         THEN add_neighbor_sinr_to_buffer(ue_buf, U16(neighID.v),
                                                          sinr.v)
                         ELSE ue_buf,
                         records, j + 2)

(* second loop of log_kpm_measurements: one neighbor tuple *)
iv_NeighborItem(T, item) ==
    IF ~NeighborAccepted(item) THEN T
    ELSE LET info == parseNeighMsg(item.name)
             g == iv_get_or_create_ue_buffer(T, info.ueID)
         IN  IF g.idx = 0 THEN g.T
             ELSE [g.T EXCEPT
                     !.bufs[g.idx] = iv_AddPairs(g.T.bufs[g.idx], item.records, 1)]

(* log_kpm_measurements with > in place of >= in the 5-second test *)
iv_log_kpm_measurements_late(T, report, simulation_timestamp) ==
    IF Len(report.items) = 0 THEN [T EXCEPT !.abort = TRUE]   \* assert
    ELSE IF Len(report.items) # report.data_len THEN T
    ELSE LET T0 == IF T.last = 0 THEN [T EXCEPT !.last = simulation_timestamp]
                   ELSE T
             should_process == ElapsedAtLeast(simulation_timestamp, T0.last,
                                              PREDICTION_INTERVAL_US + 1)
             T1 == FoldSeq(LAMBDA a, item :
                               iv_ServingItem(a, item, simulation_timestamp),
                           T0, report.items)
             T2 == FoldSeq(iv_NeighborItem, T1, report.items)
         IN  IF should_process
             THEN [process_and_send_averaged_data(T2, simulation_timestamp)
                      EXCEPT !.last = simulation_timestamp]
             ELSE T2

iv_log_kpm_measurements(T, report, simulation_timestamp) ==
    IF Len(report.items) = 0 THEN [T EXCEPT !.abort = TRUE]   \* assert
    ELSE IF Len(report.items) # report.data_len THEN T
    ELSE LET T0 == IF T.last = 0 THEN [T EXCEPT !.last = simulation_timestamp]
                   ELSE T
             should_process == ElapsedAtLeast(simulation_timestamp, T0.last,
                                              PREDICTION_INTERVAL_US)
             T1 == FoldSeq(LAMBDA a, item :
                               iv_ServingItem(a, item, simulation_timestamp),
                           T0, report.items)
             T2 == FoldSeq(iv_NeighborItem, T1, report.items)
         IN  IF should_process
             THEN [process_and_send_averaged_data(T2, simulation_timestamp)
                      EXCEPT !.last = simulation_timestamp]
             ELSE T2

(* the loop of sm_cb_kpm over meas_report_per_ue *)
RECURSIVE iv_ReportLoop(_, _, _, _)
iv_ReportLoop(T, reports, i, timestamp) ==
    IF i > Len(reports) \/ T.abort THEN T
    ELSE iv_ReportLoop(iv_log_kpm_measurements(T, reports[i], timestamp),
                       reports, i + 1, timestamp)

(* sm_cb_kpm of the 5-second-interval variant: one indication under the     *)
(* mutex.  The header goes to log_file only; every line goes to log_file if *)
(* it is open and to send() if socket_connected, whose result is not looked *)
(* at.                                                                      *)
iv_sm_cb_kpm(ind, sendres) ==
    /\ iv_pstate = "run"
    /\ LET T0 == [bufs |-> iv_ue_buffers, n |-> iv_num_active_ues,
                  last |-> last_prediction_time,
                  out |-> <<>>, events |-> <<>>, abort |-> FALSE]
           T == iv_ReportLoop(T0, ind.reports, 1, ind.timestamp)
           header == IF iv_indication_counter = 0 THEN <<HeaderLine>> ELSE <<>>
       IN  /\ iv_ue_buffers' = T.bufs
           /\ iv_num_active_ues' = T.n
           /\ last_prediction_time' = T.last
           /\ iv_indication_counter' = iv_indication_counter + 1
           /\ iv_log_file' = IF iv_log_file_open
                             THEN iv_log_file \o header \o T.out
                             ELSE iv_log_file
           /\ iv_sock_out' = IF iv_socket_connected
                             THEN iv_sock_out \o T.out
                             ELSE iv_sock_out
           /\ iv_send_log' = IF iv_socket_connected
                             THEN iv_send_log \o SendCalls(T.out, sendres)
                             ELSE iv_send_log
           /\ iv_pstate' = IF T.abort THEN "aborted" ELSE "run"
           /\ iv_events' = T.events
           /\ iv_last_ind' = ind
    /\ UNCHANGED <<iv_log_file_open, iv_socket_connected>>
    /\ UNCHANGED <<maVars, seqVars, sortVars, ccVars, shVars, csvVars, v1Vars, prbVars>>

(* Inputs of the 5-second-interval variant: the same three neighbor cells   *)
(* reported in two orders, and a second serving cell                        *)
PairsUp == <<Real(6), Integer(4), Real(9), Integer(5), Real(12), Integer(6),
             Real(15), Integer(7)>>
PairsDown == <<Real(15), Integer(7), Real(12), Integer(6), Real(9), Integer(5),
               Real(6), Integer(4)>>

IvReports ==
    { Report(<<Serv(1, 2, 10), Neigh(1, 2, PairsUp)>>),
      Report(<<Serv(1, 2, 20), Neigh(1, 2, PairsDown)>>),
      Report(<<Serv(1, 3, 30), Neigh(1, 3, Pairs2)>>),
      Report(<<Serv(2, 3, 20), Neigh(2, 3, PairsDown)>>) }

IvTimestamps == {1000000, 5999999, 6000000}

IvIndications == [timestamp : IvTimestamps, reports : {<<r>> : r \in IvReports}]

NextIv ==
    /\ iv_indication_counter < MaxIndIv
    /\ \E ind \in IvIndications, sendres \in V2SendResults :
         iv_sm_cb_kpm(ind, sendres)

SpecIv == Init /\ [][NextIv]_vars

-----------------------------------------------------------------------------
(* Properties of the 5-second-interval variant *)

(* C13: the serving samples summed for a UE between two emissions all have  *)
(* the serving cell the record is emitted with; a sample whose serving cell *)
(* differs from the one being accumulated is not added to the running sum:  *)
(* the samples behind serving_sinr_sum are always samples of one cell.      *)
C13_IntervalServingCell ==
    /\ \A k \in 1..Len(iv_events) :
         LET e == iv_events[k]
         IN  \A s \in 1..Len(e.ue_buf.samples) :
               e.ue_buf.samples[s].cellID = e.out.serving_cell
    /\ \A i \in 1..Len(iv_ue_buffers) :
         \A s \in 1..Len(iv_ue_buffers[i].samples) :
           iv_ue_buffers[i].samples[s].cellID = iv_ue_buffers[i].servingCellID

(* the neighbor cells offered to a buffer since it was cleared, and the sum *)
(* and number of the SINR values offered for one of them                    *)
OfferedCells(ue_buf) ==
    {ue_buf.offered[k].cellID : k \in 1..Len(ue_buf.offered)}
CellMean(ue_buf, c) ==
    LET ks == [k \in 1..Len(ue_buf.offered) |->
                  IF ue_buf.offered[k].cellID = c THEN ue_buf.offered[k].sinr ELSE 0]
        ns == [k \in 1..Len(ue_buf.offered) |->
                  IF ue_buf.offered[k].cellID = c THEN 1 ELSE 0]
    IN  <<SumSeq(ks), SumNat(ns)>>

(* a >= b for two means <<sum, count>> with positive counts *)
MeanGeq(a, b) == a[1] * b[2] >= b[1] * a[2]
MeanEq(a, b) == a[1] * b[2] = b[1] * a[2]

(* C15: the three neighbors written to a record are the three neighbor      *)
(* cells with the highest per-cell average SINR over the interval, in       *)
(* descending order of average, whatever the order in which the cells were  *)
(* first reported.                                                          *)
C15_IntervalTopThree ==
    \A k \in 1..Len(iv_events) :
      LET e == iv_events[k]
          cells == OfferedCells(e.ue_buf)
          ids == e.out.neighbor_ids
          avg == e.out.neighbor_sinr
      IN  Cardinality(cells) >= 3 =>
            /\ \A n \in 1..3 : /\ ids[n] \in cells
                               /\ MeanEq(avg[n], CellMean(e.ue_buf, ids[n]))
            /\ \A n \in 1..3, m \in 1..3 : ids[n] = ids[m] => n = m
            /\ MeanGeq(avg[1], avg[2])
            /\ MeanGeq(avg[2], avg[3])
            /\ \A c \in cells \ {ids[n] : n \in 1..3} :
                 MeanGeq(avg[3], CellMean(e.ue_buf, c))

-----------------------------------------------------------------------------
(* Neighbor values of the adaptive-window variant *)

(* the data lines written so far by the adaptive-window variant *)
MaRecords == {log_file[i] : i \in DataLines(log_file)}

(* all neighbor candidates of the samples behind a record *)
RecordCands(rec) ==
    {p \in (1..Len(rec.cands)) \X (1..MaxNeighbors) :
        p[2] <= Len(rec.cands[p[1]])}
RecordCells(rec) == {rec.cands[p[1]][p[2]].neighCellID : p \in RecordCands(rec)}

(* sum and number of the SINR values of cell c over the samples of a record *)
RecordCellMean(rec, c) ==
    LET per == [i \in 1..Len(rec.cands) |->
                  SumSeq([k \in 1..Len(rec.cands[i]) |->
                            IF rec.cands[i][k].neighCellID = c
                            THEN rec.cands[i][k].neighSINR ELSE 0])]
        cnt == [i \in 1..Len(rec.cands) |->
                  SumNat([k \in 1..Len(rec.cands[i]) |->
                            IF rec.cands[i][k].neighCellID = c THEN 1 ELSE 0])]
    IN  <<SumSeq(per), SumNat(cnt)>>

(* no candidate behind the record is a NaN or a candidate of the serving    *)
(* cell                                                                     *)
CleanRecord(rec) ==
    \A p \in RecordCands(rec) :
      /\ ~IsNaN(rec.cands[p[1]][p[2]].neighSINR)
      /\ rec.cands[p[1]][p[2]].neighCellID # rec.serving_cell

(* C14: the three neighbor values of an emitted record are obtained by      *)
(* computing, for each neighbor cell seen during the window, the arithmetic *)
(* mean of that cell's SINR over the window's samples (per cell, whatever   *)
(* the cell's rank inside each sample) and then taking the three largest    *)
(* means in descending order.                                               *)
C14_PerCellMeans ==
    \A rec \in MaRecords :
      (CleanRecord(rec) /\ Cardinality(RecordCells(rec)) >= 3) =>
        \E f \in [1..3 -> RecordCells(rec)] :
          /\ \A n \in 1..3, m \in 1..3 : f[n] = f[m] => n = m
          /\ \A n \in 1..3 : MeanEq(rec.neighbors[n], RecordCellMean(rec, f[n]))
          /\ MeanGeq(rec.neighbors[1], rec.neighbors[2])
          /\ MeanGeq(rec.neighbors[2], rec.neighbors[3])
          /\ \A c \in RecordCells(rec) \ {f[n] : n \in 1..3} :
               MeanGeq(rec.neighbors[3], RecordCellMean(rec, c))

(* the candidates of a sample that are neither of the serving cell nor NaN, *)
(* as indices into its candidate list                                       *)
ValidPointCands(pt) ==
    {k \in 1..Len(pt.cands) : /\ pt.cands[k].neighCellID # pt.servingCellID
                              /\ ~IsNaN(pt.cands[k].neighSINR)}

(* C16: a neighbor candidate whose cell id equals the sample's serving      *)
(* cell, or whose SINR is NaN, is never selected into the sample's top-3    *)
(* neighbor values and never contributes to a window's neighbor averages:   *)
(* the values selected for a sample are values of distinct candidates that  *)
(* are neither, and no emitted neighbor average is NaN.                     *)
C16_NoServingNoNaNNeighbor ==
    /\ \A k \in 1..Len(ingests) :
         LET pt == ingests[k].pt
             sel == 1..Min(3, Len(pt.cands))
         IN  \E g \in [sel -> ValidPointCands(pt) \cup {0}] :
               /\ \A j \in sel : g[j] # 0
               /\ \A i \in sel, j \in sel : g[i] = g[j] => i = j
               /\ \A j \in sel : pt.neighborSINR[j] = pt.cands[g[j]].neighSINR
    /\ \A rec \in MaRecords :
         \A n \in 1..3 : ~IsNaN(rec.neighbors[n][1])

-----------------------------------------------------------------------------
(* The neighbor sort of check_and_send_ue_data applied to lists of valid    *)
(* candidates.  The cell id of a candidate is its position of insertion.    *)

SortInputs ==
    UNION { { [k \in 1..n |-> [cellID |-> k, sinr |-> f[k], x |-> 0, y |-> 0]] :
                f \in [1..n -> 1..MaxSortSinr] } : n \in 0..MaxSortLen }

InitSort ==
    /\ InitMaVars(TRUE, FALSE)
    /\ InitSeqVars("pad")
    /\ InitIvVars
    /\ InitCcVars
    /\ InitShVars
    /\ InitMonitorVars
    /\ sort_input \in SortInputs
    /\ sort_output = <<>>

(* the two loops run on neighbors[] *)
SortNeighbors ==
    /\ sort_output = <<>>
    /\ sort_output' = <<SortOuter(sort_input, 1)>>
    /\ UNCHANGED <<sort_input, maVars, seqVars, ivVars, ccVars, shVars, csvVars, v1Vars, prbVars>>

NextSort == SortNeighbors

SpecSort == InitSort /\ [][NextSort]_vars

(* C17: the neighbor sort is stable: any two valid candidates with equal    *)
(* SINR appear in the ranked output in the order in which they were         *)
(* inserted.                                                                *)
C17_StableSort ==
    sort_output # <<>> =>
      LET out == sort_output[1]
      IN  \A i \in 1..Len(out), j \in 1..Len(out) :
            (i < j /\ out[i].sinr = out[j].sinr) => out[i].cellID < out[j].cellID

-----------------------------------------------------------------------------
(* Capacity and time policy of the adaptive-window variant *)

(* C18: in every reachable state a window's count is at most 200, the       *)
(* capacity of its buffer, for any sequence of sample timestamps including  *)
(* timestamps that do not advance, and no add_to_adaptive_window call has   *)
(* stored a sample past buffer[199].                                        *)
C18_WindowCapacity ==
    /\ \A i \in 1..Len(ue_windows) :
         /\ ue_windows[i].count <= BufferCapacity
         /\ Len(ue_windows[i].buffer) <= BufferCapacity
    /\ \A k \in 1..Len(ingests) : ingests[k].ub = "none"

(* the call adds a sample of the window's serving cell to a window that     *)
(* holds samples and has room for one more                                  *)
TimePolicyCase(e) ==
    /\ PreWindow(e).count >= 1
    /\ PreWindow(e).count < BufferCapacity
    /\ PreWindow(e).current_serving_cell = e.pt.servingCellID

(* C19: the time policy closes a window only when the closing sample's      *)
(* timestamp is at least 5000 ms later than the window's start timestamp;   *)
(* a same-serving-cell sample whose timestamp is earlier than the window    *)
(* start does not close the window but is added to it.                      *)
C19_ClosesOnlyAfterThreshold ==
    \A k \in 1..Len(ingests) :
      LET e == ingests[k]
          t0 == PreWindow(e).window_start_time
      IN  TimePolicyCase(e) =>
            /\ (e.out # <<>> \/ PostWindow(e).count = 0)
                 => e.pt.timestamp >= t0 + WindowMs
            /\ e.pt.timestamp < t0
                 => /\ e.out = <<>>
                    /\ PostWindow(e).count = PreWindow(e).count + 1

(* the call closed the window by the time threshold: a sample of the        *)
(* window's serving cell was added to a window holding samples and a record *)
(* was emitted                                                              *)
TimeClosed(e) ==
    /\ PreWindow(e).count >= 1
    /\ PreWindow(e).count < BufferCapacity
    /\ PreWindow(e).current_serving_cell = e.pt.servingCellID
    /\ e.out # <<>>

EmptyWindow(w) ==
    /\ w.count = 0
    /\ w.window_active = FALSE
    /\ w.current_serving_cell = 0

(* C20: after a window is closed by the time threshold the UE's window is   *)
(* EMPTY (count = 0, window_active = false, current_serving_cell = 0), and  *)
(* the next sample of that UE, whatever its serving cell, seeds a new       *)
(* window, with serving cell and start timestamp taken from that sample,    *)
(* without emitting a record.                                               *)
C20_EmptyAfterTimeClose ==
    \A k \in 1..Len(ingests) :
      LET e == ingests[k]
      IN  /\ TimeClosed(e) => EmptyWindow(PostWindow(e))
          /\ PreWindow(e).count = 0
               => /\ EmptyWindow(PreWindow(e))
                  /\ e.out = <<>>
                  /\ PostWindow(e).count = 1
                  /\ LiveBuffer(PostWindow(e)) = <<e.pt>>
                  /\ PostWindow(e).current_serving_cell = e.pt.servingCellID
                  /\ PostWindow(e).window_start_time = e.pt.timestamp
                  /\ PostWindow(e).window_active = TRUE

(* a window that a time close had emptied (its start time is that of the    *)
(* closing sample, 5000 ms) was seeded by a sample of another serving cell  *)
(* than the one of the record written at the close                          *)
C20_Witness ==
    \E k \in 1..Len(ingests) :
      LET e == ingests[k]
      IN  /\ PreWindow(e).count = 0
          /\ PreWindow(e).window_start_time = WindowMs
          /\ PostWindow(e).count = 1
          /\ \E i \in DataLines(console) :
               /\ \A j \in DataLines(console) : j <= i
               /\ console[i].ue_id = e.pt.ueID
               /\ console[i].serving_cell # e.pt.servingCellID
               /\ console[i].serving[2] >= 2

-----------------------------------------------------------------------------
(* The full UE table of the adaptive-window variant *)

(* The table after a first indication, at timestamp 0, whose report holds   *)
(* one serving tuple (cell 2, SINR 10) for each of the UEs 1..MAX_UE_COUNT: *)
(* every entry holds that one sample.                                       *)
FillPoint(u) ==
    [MakePoint([timestamp |-> 0, ueID |-> u, servingCellID |-> 2,
                servingSINR |-> 10, servingPos |-> get_cell_position(2),
                neighbors |-> <<>>], 0)
        EXCEPT !.sid = u]

FilledWindow(u) ==
    StorePoint([NewWindow(u) EXCEPT !.current_serving_cell = 2,
                                    !.window_start_time = 0,
                                    !.window_active = TRUE],
               FillPoint(u))

InitFull ==
    /\ ue_windows = [u \in 1..MAX_UE_COUNT |-> FilledWindow(u)]
    /\ active_ue_count = MAX_UE_COUNT
    /\ num_measurements = 0
    /\ indication_counter = 1
    /\ log_file = <<HeaderLine>>
    /\ log_file_open = TRUE
    /\ console = <<HeaderLine>>
    /\ socket_connected = FALSE
    /\ sock_out = <<>>
    /\ pstate = "run"
    /\ ingests = <<>>
    /\ accepted = MAX_UE_COUNT
    /\ last_ind = NoInd
    /\ send_log = <<>>
    /\ InitSeqVars("pad")
    /\ InitIvVars
    /\ InitCcVars
    /\ InitShVars
    /\ InitMonitorVars
    /\ InitSortVars

(* reports that mix a UE id above the registered ones with registered ones *)
FullReports ==
    { Report(<<Serv(MAX_UE_COUNT + 1, 2, 10)>>),
      Report(<<Serv(MAX_UE_COUNT + 1, 2, 10), Neigh(MAX_UE_COUNT + 1, 2, Pairs3),
               Serv(1, 3, 20)>>),
      Report(<<Serv(1, 2, 10), Serv(MAX_UE_COUNT + 1, 3, 10)>>),
      Report(<<Serv(2, 2, 10)>>) }

FullIndications ==
    [timestamp : {0, 5000000}, reports : {<<r>> : r \in FullReports}]

NextFull ==
    /\ indication_counter <= MaxIndFull
    /\ \E ind \in FullIndications :
         \E ubc \in UbChoices(ind), q \in QsortChoices(ind), sendres \in SendChoices :
            sm_cb_kpm(ind, ubc, q, sendres)

SpecFull == InitFull /\ [][NextFull]_vars

(* a serving or neighbor tuple of a UE that has no entry in the table w *)
IsNewUeTuple(item, w, n) ==
    \/ /\ ServingAccepted(item)
       /\ find_ue_window(w, n, parseServingMsg(item.name).ueID) = 0
    \/ /\ NeighborAccepted(item)
       /\ find_ue_window(w, n, parseNeighMsg(item.name).ueID) = 0

(* the indication with every such tuple replaced by an entry that is not a  *)
(* named measurement                                                        *)
WithoutNewUes(ind, w, n) ==
    [ind EXCEPT !.reports =
        [i \in 1..Len(ind.reports) |->
            [ind.reports[i] EXCEPT !.items =
                [j \in 1..Len(ind.reports[i].items) |->
                    IF IsNewUeTuple(ind.reports[i].items[j], w, n) THEN NoItem
                    ELSE ind.reports[i].items[j]]]]]

HasNewUe(ind, w, n) ==
    \E i \in 1..Len(ind.reports) :
      \E j \in 1..Len(ind.reports[i].items) :
        IsNewUeTuple(ind.reports[i].items[j], w, n)

(* windows and lines without the numbering of the samples *)
NoSidPoint(p) == [p EXCEPT !.sid = 0]
NoSidWindows(w) ==
    [i \in 1..Len(w) |->
        [w[i] EXCEPT !.buffer = [k \in 1..Len(w[i].buffer) |->
                                    NoSidPoint(w[i].buffer[k])]]]
NoSidLines(lines) ==
    [i \in 1..Len(lines) |->
        IF lines[i].kind = "data" THEN [lines[i] EXCEPT !.sids = <<>>]
        ELSE lines[i]]

(* C21: when the UE table is full (MAX_UE_COUNT entries), a sample for a    *)
(* new UE id creates no entry, leaves active_ue_count and every existing    *)
(* window unchanged and emits no record; samples of registered UEs are      *)
(* accumulated and emitted as before: a callback that starts with a full    *)
(* table leaves the table and the emitted lines exactly as the same         *)
(* indication without the tuples of new UEs does.                           *)
C21_TableFull ==
    [][ (indication_counter' # indication_counter
         /\ active_ue_count = MAX_UE_COUNT)
        => /\ active_ue_count' = MAX_UE_COUNT
           /\ Len(ue_windows') = MAX_UE_COUNT
           /\ \A i \in 1..MAX_UE_COUNT : ue_windows'[i].ue_id = ue_windows[i].ue_id
           /\ \E ubc \in UbChoices(last_ind'), q \in QsortChoices(last_ind') :
                \E ind \in {WithoutNewUes(last_ind', ue_windows, active_ue_count)} :
                  \E st \in {MaCallback(ind, ubc, q)} :
                    \E w \in {st.w} :
                      /\ NoSidWindows(ue_windows') = NoSidWindows(w)
                      /\ NoSidLines(console') = NoSidLines(console \o st.lines)
                      /\ Len(ingests') = Len(st.log) ]_vars

(* a callback that started with a full table has processed a report with a  *)
(* tuple of a new UE and a tuple of a registered UE whose window it flushed *)
C21_Witness ==
    /\ active_ue_count = MAX_UE_COUNT
    /\ HasNewUe(last_ind, ue_windows, active_ue_count)
    /\ \E k \in 1..Len(ingests) :
         /\ Len(ingests[k].pre) = MAX_UE_COUNT
         /\ ingests[k].out # <<>>

(***************************************************************************)
(* The UE tables                                                           *)
(***************************************************************************)

(* no two of the first n entries of the table w carry the same UE id *)
UniqueIds(ids, n) == \A i, j \in 1..n : i # j => ids[i] # ids[j]

MaTableOk ==
    /\ active_ue_count <= MAX_UE_COUNT
    /\ UniqueIds([i \in 1..active_ue_count |-> ue_windows[i].ue_id],
                 active_ue_count)

SeqTableOk ==
    /\ num_active_ues <= MaxUeBuffers
    /\ UniqueIds([i \in 1..num_active_ues |-> ue_buffers[i].ueID],
                 num_active_ues)

(* C22: in every reachable state the UE table holds at most one entry per   *)
(* UE id (no two of the first active_ue_count entries have the same ue_id), *)
(* and the number of entries never exceeds the capacity of the table; for   *)
(* the table of windows of ue_localization_MA.c and the table of buffers of *)
(* the sequence variant of ue_localization_MA_v2.c                          *)
C22_OneEntryPerUe == MaTableOk /\ SeqTableOk

(***************************************************************************)
(* The burst clock between the calls                                       *)
(***************************************************************************)

(* the UE ids (0..TOTAL_UES) whose burst_sequence_assigned flag reads set *)
AssignedUes(b, lay) == {i \in 0..TOTAL_UES : ReadAssigned(b, i, lay)}

(* the distinct UEs that have called in the open burst, from the calls seen *)
BurstMembers == FoldSeq(C6_Step, [s |-> 0, rec |-> {}, ok |-> TRUE], assign_log).rec

(* C23: between calls of assign_sequence_timestamp, current_burst_ue_count  *)
(* equals the number of UEs whose burst_sequence_assigned flag is set and   *)
(* is smaller than TOTAL_UES; current_sequence_timestamp never decreases    *)
(* and changes only by +1, and only in the call that registers the          *)
(* TOTAL_UES-th distinct UE of the burst, which also clears every flag and  *)
(* resets the count to 0.                                                   *)
C23_BurstClockBetweenCalls ==
    [][ assign_log' # assign_log =>
        \E ue \in {assign_log'[Len(assign_log')].ue} :
          \E members \in {BurstMembers} :
            LET last == ue \notin members
                        /\ Cardinality(members \cup {ue}) = TOTAL_UES
            IN  /\ current_burst_ue_count'
                     = Cardinality(AssignedUes(BurstClock', layout'))
                /\ current_burst_ue_count' < TOTAL_UES
                /\ current_sequence_timestamp'
                     = current_sequence_timestamp + (IF last THEN 1 ELSE 0)
                /\ last => /\ AssignedUes(BurstClock', layout') = {}
                           /\ current_burst_ue_count' = 0 ]_vars

(***************************************************************************)
(* The sinks of the adaptive-window variant with a receiver connected      *)
(***************************************************************************)

(* two UEs on cell 2, the same two on cell 3: the second report after the  *)
(* first closes two windows in one callback                                *)
SockReports ==
    { Report(<<Serv(1, 2, 10), Serv(2, 2, 10)>>),
      Report(<<Serv(1, 3, 20), Serv(2, 3, 20)>>) }

SockIndications ==
    [timestamp : {0, 5000000}, reports : {<<r>> : r \in SockReports}]

(* log file opened and init_unix_socket connected *)
InitSock ==
    /\ InitMaVars(TRUE, TRUE)
    /\ InitSeqVars("pad")
    /\ InitIvVars
    /\ InitCcVars
    /\ InitShVars
    /\ InitMonitorVars
    /\ InitSortVars

NextSock ==
    /\ indication_counter < MaxIndSock
    /\ \E ind \in SockIndications :
         \E ubc \in UbChoices(ind), q \in QsortChoices(ind), sendres \in SendChoices :
            sm_cb_kpm(ind, ubc, q, sendres)

SpecSock == InitSock /\ [][NextSock]_vars

(* the places of the header lines and of the data records on a stream *)
HeaderLines(stream) == {i \in 1..Len(stream) : stream[i].kind = "header"}

(* a stream that carries a data record carries the header exactly once, *)
(* and before the first data record                                     *)
HeaderOnceFirst(stream) ==
    DataLines(stream) # {} =>
        /\ Cardinality(HeaderLines(stream)) = 1
        /\ \A h \in HeaderLines(stream), d \in DataLines(stream) : h < d

(* C24 as stated: on each output stream (the CSV file and the socket        *)
(* connection) the column header line is emitted exactly once, and before   *)
(* the first data record on that stream.                                    *)
C24_HeaderOnEachStream ==
    /\ HeaderOnceFirst(log_file)
    /\ HeaderOnceFirst(sock_out)

(* C24, amended: the CSV file carries the header exactly once, as its first *)
(* line, written by the first callback; the socket never carries a header   *)
(* (no send() is made for it), it carries data records only.  The same for  *)
(* the two variants of ue_localization_MA_v2.c.                             *)
C24_HeaderOnFileOnly ==
    /\ HeaderOnceFirst(log_file)
    /\ (indication_counter > 0 /\ log_file_open) => HeaderLines(log_file) = {1}
    /\ HeaderLines(sock_out) = {}
    /\ \A t \in 1..Len(send_log) : send_log[t].line.kind = "data"
    /\ HeaderOnceFirst(seq_log_file) /\ HeaderLines(seq_sock_out) = {}
    /\ HeaderOnceFirst(iv_log_file) /\ HeaderLines(iv_sock_out) = {}

(* records have been written to the file behind its header and records have *)
(* been taken by the socket, which carries no header                         *)
C24_Witness ==
    /\ indication_counter >= 2
    /\ HeaderLines(log_file) = {1}
    /\ Cardinality(DataLines(log_file)) >= 2
    /\ DataLines(sock_out) # {}
    /\ HeaderLines(sock_out) = {}

(* the send() calls that ended with EPIPE or ECONNRESET *)
LostSends(log) == {t \in 1..Len(log) : log[t].res = "reset"}

(* C25: in the adaptive-window variant, once a socket send fails because    *)
(* the connection is lost, the socket is marked disconnected and no later   *)
(* record is ever sent to it (no retry, no reconnect for the rest of the    *)
(* run), while every emitted record, before and after the failure, is still *)
(* appended to the file sink.                                               *)
C25_NoSendAfterLoss ==
    [][ /\ \A t \in LostSends(send_log') :
             /\ t = Len(send_log')
             /\ ~socket_connected'
        /\ ~socket_connected =>
             /\ ~socket_connected'
             /\ send_log' = send_log
             /\ sock_out' = sock_out
        /\ log_file' = console' ]_vars

(* a send() was lost after a successful one, and a later callback has *)
(* written a record to the file                                       *)
C25_Witness ==
    /\ Len(send_log) >= 2
    /\ send_log[1].res = "ok"
    /\ send_log[Len(send_log)].res = "reset"
    /\ ~socket_connected
    /\ Cardinality(DataLines(log_file)) > Len(send_log)
    /\ log_file[Len(log_file)] # send_log[Len(send_log)].line

(* no send() call is made after one that failed *)
NoSendAfterFailure(log) ==
    \A t \in 1..Len(log) : log[t].res # "ok" => t = Len(log)

(* C26: in the interval and sequence-synchronized variants of               *)
(* ue_localization_MA_v2.c a failed send to the socket is detected: after   *)
(* the first failed send no further send is attempted for later records.    *)
C26_FailedSendDetected ==
    /\ NoSendAfterFailure(iv_send_log)
    /\ NoSendAfterFailure(seq_send_log)

(***************************************************************************)
(* Progress of the callbacks with a receiver connected                     *)
(***************************************************************************)

(* The xApp library calls sm_cb_kpm for every indication that arrives: a  *)
(* callback that can run is run.  Every step that counts an indication is *)
(* a step of NextSock, so the fairness condition is stated on the counter. *)
Delivered ==
    /\ pstate = "run"
    /\ indication_counter < MaxIndSock
    /\ indication_counter' = indication_counter + 1

SpecSockFair ==
    InitSock /\ [][NextSock]_vars /\ WF_indication_counter(Delivered)

(* a send() has been entered that cannot complete: the receiver does not *)
(* read and the socket buffer is full                                    *)
SendCannotComplete ==
    /\ send_log # <<>>
    /\ send_log[Len(send_log)].res = "block"

(* the callback has returned and the mutex is free *)
CallbackFinished == pstate = "run"

(* C27: an ingest never waits on the socket sink: if the socket peer stops  *)
(* reading so that a send cannot complete, the indication callback still    *)
(* finishes and releases the aggregation mutex (the record is dropped for   *)
(* that sink), so that later indications are eventually processed.          *)
C27_CallbackFinishes == SendCannotComplete ~> CallbackFinished

(***************************************************************************)
(* ue_localization_MA.c: indication callbacks on two threads               *)
(*                                                                         *)
(* Positions of a thread in sm_cb_kpm:                                     *)
(*   "idle"    not in the callback                                         *)
(*   "called"  the asserts and the pointers to hdr and msg (lines 599-605) *)
(*   "header"  in the block of lock_guard, before the header (line 611)    *)
(*   "loop"    at the loop over meas_report_per_ue (line 618)              *)
(***************************************************************************)

(* the positions inside the block { lock_guard(&mtx); ... } of sm_cb_kpm, *)
(* lines 607-623, when the block ends before the loop                      *)
InsideGuard_header_only(p) == p = "header"

(* the positions inside the block { lock_guard(&mtx); ... } of sm_cb_kpm, *)
(* lines 607-623                                                           *)
InsideGuard(p) == p \in {"header", "loop"}

(* lock_guard(&mtx) of the xApp library: takes mtx when the block is     *)
(* entered, waiting while another thread holds it, and gives it back     *)
(* when the block is left                                                *)
lock_guard(t, from, to) ==
    IF ~InsideGuard(from) /\ InsideGuard(to)
    THEN mtx = 0 /\ mtx' = t
    ELSE IF InsideGuard(from) /\ ~InsideGuard(to)
    THEN mtx' = 0
    ELSE mtx' = mtx

(* thread t moves from one position to the next *)
Move(t, from, to) ==
    /\ cb_pc[t] = from
    /\ cb_pc' = [cb_pc EXCEPT ![t] = to]
    /\ lock_guard(t, from, to)
    /\ UNCHANGED <<seqVars, ivVars, sortVars, shVars, csvVars, v1Vars, prbVars>>

StaticState ==
    [w |-> ue_windows, n |-> active_ue_count, counter |-> indication_counter,
     console |-> console, file |-> log_file, acc |-> accepted]

NoSends == <<"ok", "ok">>

(* the library calls sm_cb_kpm on thread t *)
CbCall(t, ind) ==
    /\ pstate = "run"
    /\ cb_calls < MaxCalls
    /\ Move(t, "idle", "called")
    /\ cb_ind' = [cb_ind EXCEPT ![t] = ind]
    /\ cb_calls' = cb_calls + 1
    /\ UNCHANGED <<maVars, cb_i, cb_snap>>

(* the block is entered *)
CbEnter(t) ==
    /\ pstate = "run"
    /\ Move(t, "called", "header")
    /\ cb_snap' = [cb_snap EXCEPT ![t] = StaticState]
    /\ UNCHANGED <<maVars, cb_ind, cb_i, cb_calls>>

(* lines 611-615: the header in the first indication, indication_counter++ *)
CbHeader(t) ==
    /\ pstate = "run"
    /\ Move(t, "header", "loop")
    /\ cb_i' = [cb_i EXCEPT ![t] = 1]
    /\ \E sinks \in {log_both([console |-> console, file |-> log_file,
                              sock |-> sock_out, connected |-> socket_connected,
                              tries |-> send_log, sent |-> 0,
                              k |-> 0, blocked |-> 0],
                             IF indication_counter = 0 THEN <<HeaderLine>> ELSE <<>>,
                             log_file_open, NoSends)} :
         /\ console' = sinks.console
         /\ log_file' = sinks.file
    /\ indication_counter' = indication_counter + 1
    /\ last_ind' = cb_ind[t]
    /\ UNCHANGED <<ue_windows, active_ue_count, num_measurements, log_file_open,
                   socket_connected, sock_out, pstate, ingests, accepted,
                   send_log, cb_ind, cb_snap, cb_calls>>

(* lines 618-621: one round of the loop, log_kpm_measurements for report i *)
CbReport(t) ==
    /\ pstate = "run"
    /\ cb_i[t] <= Len(cb_ind[t].reports)
    /\ Move(t, "loop", "loop")
    /\ cb_i' = [cb_i EXCEPT ![t] = cb_i[t] + 1]
    /\ \E st \in {log_kpm_measurements(
                     [w |-> ue_windows, n |-> active_ue_count, lines |-> <<>>,
                      log |-> <<>>, acc |-> accepted, ub |-> "none",
                      abort |-> FALSE],
                     cb_ind[t].reports[cb_i[t]], cb_ind[t].timestamp, "trap", 0)} :
       \E sinks \in {log_both([console |-> console, file |-> log_file,
                              sock |-> sock_out, connected |-> socket_connected,
                              tries |-> send_log, sent |-> 0,
                              k |-> 0, blocked |-> 0],
                             st.lines, log_file_open, NoSends)} :
         /\ ue_windows' = st.w
         /\ active_ue_count' = st.n
         /\ ingests' = st.log
         /\ accepted' = st.acc
         /\ console' = sinks.console
         /\ log_file' = sinks.file
         /\ pstate' = IF st.ub # "none" THEN "undefined"
                      ELSE IF st.abort THEN "aborted" ELSE "run"
    /\ UNCHANGED <<num_measurements, indication_counter, log_file_open,
                   socket_connected, sock_out, last_ind, send_log,
                   cb_ind, cb_snap, cb_calls>>

(* the loop has ended: the block is left and the callback returns *)
CbReturn(t) ==
    /\ pstate = "run"
    /\ cb_i[t] > Len(cb_ind[t].reports)
    /\ Move(t, "loop", "idle")
    /\ UNCHANGED <<maVars, cb_ind, cb_i, cb_snap, cb_calls>>

(* indications of two reports: each callback makes three changes of the *)
(* static state                                                          *)
CcIndications ==
    [timestamp : {0, 5000000},
     reports : {<<Report(<<Serv(1, 2, 10)>>), Report(<<Serv(2, 2, 10)>>)>>,
                <<Report(<<Serv(1, 3, 20)>>), Report(<<Serv(1, 2, 10)>>)>>}]

NextCc ==
    \E t \in Threads :
        \/ \E ind \in CcIndications : CbCall(t, ind)
        \/ CbEnter(t)
        \/ CbHeader(t)
        \/ CbReport(t)
        \/ CbReturn(t)

SpecCc == Init /\ [][NextCc]_vars

(* the threads that are at a position where the static state is changed *)
Mutators == {t \in Threads : cb_pc[t] \in {"header", "loop"}}

(* the static state after the whole callback of indication ind, run alone *)
(* from the static state s                                                *)
RunAlone(s, ind) ==
    LET st == ReportLoop([w |-> s.w, n |-> s.n,
                          lines |-> IF s.counter = 0 THEN <<HeaderLine>> ELSE <<>>,
                          log |-> <<>>, acc |-> s.acc, ub |-> "none",
                          abort |-> FALSE],
                         ind.reports, 1, ind.timestamp, "trap", 0)
    IN  [w |-> st.w, n |-> st.n, counter |-> s.counter + 1,
         console |-> s.console \o st.lines, file |-> s.file \o st.lines,
         acc |-> st.acc]

(* C28: two indication callbacks running concurrently never interleave      *)
(* their mutations of window state or of the temporary measurement array:   *)
(* the whole processing of one indication, including record emission,       *)
(* happens inside one critical section on mtx, and at most one callback is  *)
(* inside it at any time.  When a callback returns, the static state is the *)
(* one it found when it took mtx, changed by this callback alone.           *)
C28_OneCallbackAtATime ==
    [][ /\ Cardinality(Mutators') <= 1
        /\ \A t \in Mutators' : mtx' = t
        /\ \A t \in Threads :
             (cb_pc[t] = "loop" /\ cb_pc'[t] = "idle")
                => \E alone \in {RunAlone(cb_snap[t], cb_ind[t])} :
                     StaticState' = alone ]_vars

(* a callback has returned, and a thread that was called waits for mtx  *)
(* while the other thread is in the middle of its loop and has written a *)
(* record                                                                *)
C28_Witness ==
    /\ cb_calls >= 3
    /\ indication_counter >= 2
    /\ \E t \in Threads, u \in Threads :
         /\ cb_pc[t] = "called"
         /\ mtx = u /\ u # t
         /\ cb_pc[u] = "loop" /\ cb_i[u] = 2
    /\ console # <<>> /\ console[Len(console)].kind = "data"

(***************************************************************************)
(* Malformed deliveries                                                    *)
(***************************************************************************)

(* a decoded report with meas_info_lst_len = 0 and no data either *)
EmptyReport == [items |-> <<>>, data_len |-> 0]

MalformedIndications ==
    [timestamp : {1000000},
     reports : {<<EmptyReport>>, <<MismatchedReport>>,
                <<Report(<<Serv(1, 2, 10), Neigh(1, 2, Pairs3)>>)>>,
                <<MismatchedReport, Report(<<Serv(1, 3, 10)>>)>>}]

(* each of the three programs is handed such indications *)
NextMalformed ==
    \E ind \in MalformedIndications :
        \/ /\ indication_counter < MaxIndMal
           /\ sm_cb_kpm(ind, "trap", 0, NoSends)
        \/ /\ seq_indication_counter < MaxIndMal
           /\ seq_sm_cb_kpm(ind, "ok")
           /\ UNCHANGED <<assign_log, env>>
        \/ /\ iv_indication_counter < MaxIndMal
           /\ iv_sm_cb_kpm(ind, "ok")

SpecMalformed == Init /\ [][NextMalformed]_vars

(* C29: no single malformed delivery terminates the process: for every      *)
(* decoded delivery, including one with an empty measurement-info list or   *)
(* with info and data lists of different lengths, log_kpm_measurements      *)
(* returns normally and the engine goes on processing later deliveries.     *)
C29_NoTermination ==
    /\ pstate = "run"
    /\ seq_pstate = "run"
    /\ iv_pstate = "run"

(***************************************************************************)
(* The 5-second-interval variant: deliveries of one UE and the buffers of  *)
(* the others                                                              *)
(***************************************************************************)

(* the UEs of the tuples of an indication that log_kpm_measurements accepts *)
DeliveryUes(ind) ==
    UNION { {parseServingMsg(ind.reports[i].items[j].name).ueID :
                j \in {j \in 1..Len(ind.reports[i].items) :
                          ServingAccepted(ind.reports[i].items[j])}}
            \cup
            {parseNeighMsg(ind.reports[i].items[j].name).ueID :
                j \in {j \in 1..Len(ind.reports[i].items) :
                          NeighborAccepted(ind.reports[i].items[j])}}
            : i \in 1..Len(ind.reports) }

(* the buffers, before the callback, of the UEs the indication has no *)
(* sample of                                                          *)
OtherBuffers(ind) ==
    {i \in 1..iv_num_active_ues : iv_ue_buffers[i].ueID \notin DeliveryUes(ind)}

(* the 5-second test of the callback for an indication of time ts *)
IntervalPassed(ts) ==
    ElapsedAtLeast(ts, IF last_prediction_time = 0 THEN ts ELSE last_prediction_time,
                   PREDICTION_INTERVAL_US)

MaxIndShut == 2
MaxSignals == 1

(* close_unix_socket, lines 208-215, on [fd, connected] *)
close_unix_socket(s) ==
    IF s.fd # -1 THEN [fd |-> -1, connected |-> FALSE] ELSE s

(* a cleanup that writes the record of every window that holds samples *)
shutdown_records_flush(w) ==
    Concat([i \in 1..Len(w) |-> send_window_batch_to_python(w[i])], Len(w))

(* the records main writes for ue_windows between its loop and fclose,    *)
(* lines 715-721: the cleanup does not read ue_windows                    *)
shutdown_records(w) == <<>>

(* signal_handler, lines 329-334 *)
Signal ==
    /\ pstate = "run"
    /\ main_pc # "stop"
    /\ sh_signals < MaxSignals
    /\ sh_signals' = sh_signals + 1
    /\ monitoring_active' = FALSE
    /\ \E s \in {close_unix_socket([fd |-> socket_fd, connected |-> socket_connected])} :
         /\ socket_fd' = s.fd
         /\ socket_connected' = s.connected
    /\ UNCHANGED <<ue_windows, active_ue_count, num_measurements, indication_counter,
                   log_file, log_file_open, console, sock_out, pstate, ingests,
                   accepted, last_ind, send_log>>
    /\ UNCHANGED <<file_closed, subscribed, main_pc, sh_pc, sh_lines, sh_bad_sends,
                   sh_late_writes, sh_emitted>>
    /\ UNCHANGED <<seqVars, ivVars, sortVars, ccVars, csvVars, v1Vars, prbVars>>

(* main, lines 713-717: the loop ends, close_unix_socket *)
MainCloseSocket ==
    /\ pstate = "run"
    /\ main_pc = "loop"
    /\ ~monitoring_active
    /\ main_pc' = "fclose"
    /\ \E s \in {close_unix_socket([fd |-> socket_fd, connected |-> socket_connected])} :
         /\ socket_fd' = s.fd
         /\ socket_connected' = s.connected
    /\ UNCHANGED <<ue_windows, active_ue_count, num_measurements, indication_counter,
                   log_file, log_file_open, console, sock_out, pstate, ingests,
                   accepted, last_ind, send_log>>
    /\ UNCHANGED <<monitoring_active, file_closed, subscribed, sh_pc, sh_lines,
                   sh_signals, sh_bad_sends, sh_late_writes, sh_emitted>>
    /\ UNCHANGED <<seqVars, ivVars, sortVars, ccVars, csvVars, v1Vars, prbVars>>

(* main, lines 718-720: fclose(log_file); the pointer log_file is not set *)
(* to NULL                                                                 *)
MainFclose ==
    /\ pstate = "run"
    /\ main_pc = "fclose"
    /\ main_pc' = "rm"
    /\ \E out \in {shutdown_records(ue_windows)} :
         /\ console' = console \o out
         /\ log_file' = IF log_file_open THEN log_file \o out ELSE log_file
         /\ sh_emitted' = sh_emitted \o out
    /\ file_closed' = (file_closed \/ log_file_open)
    /\ UNCHANGED <<ue_windows, active_ue_count, num_measurements, indication_counter,
                   log_file_open, socket_connected, sock_out, pstate, ingests,
                   accepted, last_ind, send_log>>
    /\ UNCHANGED <<monitoring_active, socket_fd, subscribed, sh_pc, sh_lines,
                   sh_signals, sh_bad_sends, sh_late_writes>>
    /\ UNCHANGED <<seqVars, ivVars, sortVars, ccVars, csvVars, v1Vars, prbVars>>

(* main, lines 723-726: rm_report_sm_xapp_api for every handle *)
MainRemove ==
    /\ pstate = "run"
    /\ main_pc = "rm"
    /\ main_pc' = "stop"
    /\ subscribed' = FALSE
    /\ UNCHANGED maVars
    /\ UNCHANGED <<monitoring_active, socket_fd, file_closed, sh_pc, sh_lines,
                   sh_signals, sh_bad_sends, sh_late_writes, sh_emitted>>
    /\ UNCHANGED <<seqVars, ivVars, sortVars, ccVars, csvVars, v1Vars, prbVars>>

(* sm_cb_kpm is called: the windows are updated and the lines of this      *)
(* callback are handed to log_both one by one in the steps that follow     *)
ShCall(ind) ==
    /\ pstate = "run"
    /\ subscribed
    /\ sh_pc = "idle"
    /\ indication_counter < MaxIndShut
    /\ \E st \in {MaCallback(ind, "trap", 0)} :
         /\ ue_windows' = st.w
         /\ active_ue_count' = st.n
         /\ ingests' = st.log
         /\ accepted' = st.acc
         /\ sh_lines' = st.lines
         /\ pstate' = IF st.ub # "none" THEN "undefined"
                      ELSE IF st.abort THEN "aborted" ELSE "run"
    /\ indication_counter' = indication_counter + 1
    /\ last_ind' = ind
    /\ sh_pc' = "emit"
    /\ UNCHANGED <<num_measurements, log_file, log_file_open, console,
                   socket_connected, sock_out, send_log>>
    /\ UNCHANGED <<monitoring_active, socket_fd, file_closed, subscribed, main_pc,
                   sh_signals, sh_bad_sends, sh_late_writes, sh_emitted>>
    /\ UNCHANGED <<seqVars, ivVars, sortVars, ccVars, csvVars, v1Vars, prbVars>>

(* log_both, lines 297-321, for the next line, up to the test of           *)
(* send_to_python (line 219).  vfprintf on a FILE that fclose has released *)
(* is undefined: the line is lost, or the process is terminated.           *)
ShLog ==
    /\ pstate = "run"
    /\ sh_pc = "emit"
    /\ sh_lines # <<>>
    /\ LET line == Head(sh_lines)
           to_send == /\ socket_connected
                      /\ line.kind # "header"
                      /\ socket_fd # -1
       IN /\ console' = Append(console, line)
          /\ IF log_file_open /\ file_closed
             THEN /\ sh_late_writes' = sh_late_writes + 1
                  /\ log_file' = log_file
                  /\ pstate' \in {"run", "undefined"}
             ELSE /\ sh_late_writes' = sh_late_writes
                  /\ log_file' = IF log_file_open THEN Append(log_file, line)
                                 ELSE log_file
                  /\ pstate' = pstate
          /\ sh_pc' = IF to_send THEN "send" ELSE "emit"
          /\ sh_lines' = IF to_send THEN sh_lines ELSE Tail(sh_lines)
    /\ UNCHANGED <<ue_windows, active_ue_count, num_measurements, indication_counter,
                   log_file_open, socket_connected, sock_out, ingests, accepted,
                   last_ind, send_log>>
    /\ UNCHANGED <<monitoring_active, socket_fd, file_closed, subscribed, main_pc,
                   sh_signals, sh_bad_sends, sh_emitted>>
    /\ UNCHANGED <<seqVars, ivVars, sortVars, ccVars, csvVars, v1Vars, prbVars>>

(* send_to_python, lines 223-229: send(socket_fd, ...).  When the socket   *)
(* has been closed meanwhile the call is made on the closed descriptor (or *)
(* on -1) and fails with EBADF, which is neither EPIPE nor ECONNRESET.     *)
ShSend ==
    /\ pstate = "run"
    /\ sh_pc = "send"
    /\ LET line == Head(sh_lines)
       IN IF socket_fd # -1
          THEN /\ sock_out' = Append(sock_out, line)
               /\ send_log' = Append(send_log, [line |-> line, res |-> "ok"])
               /\ sh_bad_sends' = sh_bad_sends
          ELSE /\ sock_out' = sock_out
               /\ send_log' = Append(send_log, [line |-> line, res |-> "other"])
               /\ sh_bad_sends' = sh_bad_sends + 1
    /\ sh_pc' = "emit"
    /\ sh_lines' = Tail(sh_lines)
    /\ UNCHANGED <<ue_windows, active_ue_count, num_measurements, indication_counter,
                   log_file, log_file_open, console, socket_connected, pstate,
                   ingests, accepted, last_ind>>
    /\ UNCHANGED <<monitoring_active, socket_fd, file_closed, subscribed, main_pc,
                   sh_signals, sh_late_writes, sh_emitted>>
    /\ UNCHANGED <<seqVars, ivVars, sortVars, ccVars, csvVars, v1Vars, prbVars>>

(* the callback returns *)
ShReturn ==
    /\ pstate = "run"
    /\ sh_pc = "emit"
    /\ sh_lines = <<>>
    /\ sh_pc' = "idle"
    /\ UNCHANGED maVars
    /\ UNCHANGED <<monitoring_active, socket_fd, file_closed, subscribed, main_pc,
                   sh_lines, sh_signals, sh_bad_sends, sh_late_writes, sh_emitted>>
    /\ UNCHANGED <<seqVars, ivVars, sortVars, ccVars, csvVars, v1Vars, prbVars>>

(* one UE that changes its serving cell, and a second UE *)
ShutIndications ==
    [timestamp : {0, 5000000},
     reports : {<<Report(<<Serv(1, 2, 10)>>)>>,
                <<Report(<<Serv(1, 3, 20)>>), Report(<<Serv(2, 2, 10)>>)>>}]

(* the receiver is connected and the log file is open *)
InitShut ==
    /\ InitMaVars(TRUE, TRUE)
    /\ InitSeqVars("pad")
    /\ InitIvVars
    /\ InitCcVars
    /\ InitShVars
    /\ InitMonitorVars
    /\ InitSortVars

NextShut ==
    \/ \E ind \in ShutIndications : ShCall(ind)
    \/ ShLog
    \/ ShSend
    \/ ShReturn
    \/ Signal
    \/ MainCloseSocket
    \/ MainFclose
    \/ MainRemove

SpecShut == InitShut /\ [][NextShut]_vars

(* the steps of the shutdown path: the signal handler and main after its loop *)
ShutdownStep == sh_signals' # sh_signals \/ main_pc' # main_pc

OpenWindows == {i \in 1..Len(ue_windows) : ue_windows[i].count > 0}

(* C31: at process shutdown (monitoring_active set to false by the signal  *)
(* handler) open windows are discarded: no step of the shutdown path       *)
(* writes a line to the console, the log file or the socket, and none      *)
(* changes a window; the windows that hold samples when main has removed   *)
(* the subscriptions have no record.                                       *)
C31_ShutdownDiscardsWindows ==
    [][ShutdownStep =>
          /\ console' = console
          /\ log_file' = log_file
          /\ sock_out' = sock_out
          /\ sh_emitted' = <<>>
          /\ ue_windows' = ue_windows]_vars

(* main has removed the subscriptions after a signal while two windows    *)
(* hold samples, one of them after an earlier record of the same UE       *)
C31_Witness ==
    /\ main_pc = "stop"
    /\ ~monitoring_active
    /\ Cardinality(OpenWindows) = 2
    /\ \E i \in 1..Len(console) : console[i].kind = "data"
    /\ sh_pc = "idle"

(***************************************************************************)
(* ue_localization_MA_v2.c, sequence variant: the array accesses of        *)
(* assign_sequence_timestamp                                               *)
(***************************************************************************)

(* the declared number of elements, lines 703 and 705 *)
DeclaredLen(array) ==
    IF array = "burst_sequence_assigned" THEN TOTAL_UES ELSE TOTAL_UES + 1

(* the elements assign_sequence_timestamp(ue_id) reads or writes, lines    *)
(* 777-806, from the burst clock b                                         *)
AssignAccesses(b, ue_id, lay) ==
    LET flag == {[array |-> "burst_sequence_assigned", index |-> ue_id]}
        ts == {[array |-> "ue_sequence_timestamps", index |-> ue_id]}
        b2 == WriteAssigned([b EXCEPT !.ts[ue_id] = b.seq], ue_id, TRUE, lay)
    IN  IF ReadAssigned(b, ue_id, lay) THEN flag \cup ts
        ELSE flag \cup ts \cup
             (IF b2.count + 1 >= TOTAL_UES
              THEN {[array |-> "burst_sequence_assigned", index |-> i] :
                       i \in 0..TOTAL_UES}
              ELSE {})

(* C32: every access of assign_sequence_timestamp to                       *)
(* burst_sequence_assigned and ue_sequence_timestamps uses an index inside *)
(* the array's declared bounds, for every UE id that can reach it,         *)
(* including the loop that clears the flags at the end of a burst.         *)
C32_IndicesInBounds ==
    [][Len(assign_log') > Len(assign_log) =>
          \A a \in AssignAccesses(BurstClock, assign_log'[Len(assign_log')].ue,
                                  layout) :
              a.index >= 0 /\ a.index < DeclaredLen(a.array)]_vars

(* C33: send is never called on a socket descriptor that has already been  *)
(* closed: under every interleaving of the signal handler or shutdown path *)
(* (close_unix_socket, which runs without holding mtx) with an indication  *)
(* callback that is emitting a record, the callback either sends on the    *)
(* still-open socket or skips the send.                                    *)
C33_NoSendOnClosedSocket == sh_bad_sends = 0

(* C34: no record is written to the log file after the shutdown path has   *)
(* closed it: under every interleaving of main's cleanup (fclose before    *)
(* the subscriptions are removed) with indication callbacks that are still *)
(* delivered, a callback that emits after the close does not write to      *)
(* log_file.                                                               *)
C34_NoWriteAfterClose == sh_late_writes = 0

(***************************************************************************)
(* Adaptive-window variant: the shape of a window between ingests          *)
(***************************************************************************)

WindowShape(w) ==
    /\ w.window_active <=> w.count > 0
    /\ w.count > 0 => /\ w.buffer # <<>>
                      /\ w.window_start_time = w.buffer[1].timestamp

(* C35: in the adaptive-window variant, in every reachable state between   *)
(* ingests each registered window satisfies: window_active is true exactly *)
(* when count > 0, and when count > 0 window_start_time equals the         *)
(* timestamp of the first buffered sample.                                 *)
C35_WindowShape ==
    /\ \A i \in 1..active_ue_count : WindowShape(ue_windows[i])
    /\ \A e \in 1..Len(ingests) :
         \A i \in 1..Len(ingests[e].post) : WindowShape(ingests[e].post[i])

(***************************************************************************)
(* kpm_monitor_xapp_v2.c: one CSV row per measurement of an indication     *)
(***************************************************************************)

CsvMaxMeasurements == 100
CsvMaxNeighbors == 10
MaxIndCsv == 3

(* first loop of log_kpm_measurements, lines 280-306: the test of a        *)
(* serving tuple                                                           *)
csv_ServingAccepted(item) ==
    /\ item.type = "NAME"
    /\ item.name.prefix = "serv"
    /\ parseServingMsg(item.name).cellID # UINT16_MAX
    /\ parseServingMsg(item.name).ueID # UINT16_MAX
    /\ Len(item.records) > 0
    /\ item.records[1].value \in {"REAL", "INTEGER"}

(* lines 284-304: a serving tuple is stored in measurements[] while        *)
(* num_measurements < 100, and is left out otherwise                       *)
csv_ServingItem(ms, item, timestamp_ms) ==
    LET info == parseServingMsg(item.name)
    IN  IF csv_ServingAccepted(item) /\ Len(ms) < CsvMaxMeasurements
        THEN Append(ms, [timestamp |-> timestamp_ms,
                         ueID |-> info.ueID,
                         servingCellID |-> info.cellID,
                         servingSINR |-> item.records[1].v,
                         servingPos |-> get_cell_position(info.cellID),
                         neighbors |-> <<>>])
        ELSE ms

(* lines 325-338: the pairs (SINR, neighbor id) of one record list *)
RECURSIVE csv_AddPairs(_, _, _)
csv_AddPairs(neighbors, records, j) ==
    IF j + 1 > Len(records) THEN neighbors
    ELSE LET sinr == records[j]
             neighID == records[j + 1]
         IN IF sinr.value = "REAL" /\ neighID.value = "INTEGER"
               /\ Len(neighbors) < CsvMaxNeighbors
            THEN csv_AddPairs(Append(neighbors,
                                     [neighCellID |-> U16(neighID.v),
                                      neighSINR |-> sinr.v]),
                              records, j + 2)
            ELSE csv_AddPairs(neighbors, records, j + 2)

(* second loop, lines 310-345: the list goes to the first measurement of  *)
(* the UE                                                                  *)
csv_NeighborItem(ms, item) ==
    LET info == parseNeighMsg(item.name)
        hits == {m \in 1..Len(ms) : ms[m].ueID = info.ueID}
    IN  IF /\ item.type = "NAME"
           /\ item.name.prefix = "neigh"
           /\ info.cellID # UINT16_MAX
           /\ info.ueID # UINT16_MAX
           /\ hits # {}
        THEN LET m == CHOOSE x \in hits : \A y \in hits : x <= y
             IN  [ms EXCEPT ![m].neighbors =
                      csv_AddPairs(ms[m].neighbors, item.records, 1)]
        ELSE ms

(* log_kpm_measurements on [ms, abort]: measurements[] is not emptied     *)
(* between the reports of one indication                                   *)
csv_log_kpm_measurements(c, report, timestamp) ==
    IF Len(report.items) = 0 THEN [c EXCEPT !.abort = TRUE]   \* assert
    ELSE IF Len(report.items) # report.data_len THEN c
    ELSE LET timestamp_ms == timestamp \div 1000
             ms1 == FoldSeq(LAMBDA a, item : csv_ServingItem(a, item, timestamp_ms),
                            c.ms, report.items)
         IN  [c EXCEPT !.ms = FoldSeq(csv_NeighborItem, ms1, report.items)]

RECURSIVE csv_ReportLoop(_, _, _, _)
csv_ReportLoop(c, reports, i, timestamp) ==
    IF i > Len(reports) \/ c.abort THEN c
    ELSE csv_ReportLoop(csv_log_kpm_measurements(c, reports[i], timestamp),
                        reports, i + 1, timestamp)

(* output_sinr_data_oneline: the row of each measurement *)
output_sinr_data_oneline(ms, q) ==
    [i \in 1..Len(ms) |->
        LET m == ms[i]
            sorted == SortedNeighborSINR(m.neighbors, q)
        IN  [kind |-> "data",
             timestamp |-> m.timestamp,
             ue_id |-> m.ueID,
             serving_cell |-> m.servingCellID,
             serving |-> m.servingSINR,
             neighbors |-> [j \in 1..3 |-> IF j <= Len(sorted) THEN sorted[j] ELSE 0],
             x |-> IF m.servingPos = <<>> THEN 0 ELSE m.servingPos[1],
             y |-> IF m.servingPos = <<>> THEN 0 ELSE m.servingPos[2]]]

(* sm_cb_kpm: header in the first indication, the reports, the rows *)
csv_sm_cb_kpm(ind, q) ==
    /\ csv_pstate = "run"
    /\ \E c \in {csv_ReportLoop([ms |-> <<>>, abort |-> FALSE], ind.reports, 1,
                                ind.timestamp)} :
         \E rows \in {IF c.abort THEN <<>> ELSE output_sinr_data_oneline(c.ms, q)} :
           /\ csv_out' = csv_out
                           \o (IF csv_indication_counter = 0 THEN <<HeaderLine>>
                               ELSE <<>>)
                           \o rows
           /\ csv_emitted' = Len(rows)
           /\ csv_num_measurements' = IF c.abort THEN Len(c.ms) ELSE 0
           /\ csv_pstate' = IF c.abort THEN "aborted" ELSE "run"
    /\ csv_indication_counter' = csv_indication_counter + 1
    /\ csv_last_ind' = ind
    /\ UNCHANGED <<maVars, seqVars, ivVars, sortVars, ccVars, shVars, v1Vars,
                   prbVars>>

(* indications of one and of two reports, with a neighbor list, with a     *)
(* tuple the matcher rejects, with 101 serving tuples, and a malformed one *)
CsvReports ==
    { <<Report(<<Serv(1, 2, 10), Neigh(1, 2, Pairs3)>>)>>,
      <<Report(<<Serv(1, 2, 10)>>), Report(<<Serv(2, 3, 20), Neigh(2, 3, Pairs3)>>)>>,
      <<Report(<<ServNoUe(2, 10), Serv(1, 3, 10)>>)>>,
      <<Burst(1, CsvMaxMeasurements), Report(<<Serv(2, 3, 20)>>)>>,
      <<MismatchedReport>>,
      <<[items |-> <<>>, data_len |-> 0]>> }

CsvIndications == [timestamp : {0, 1000000}, reports : CsvReports]

NextCsv ==
    /\ csv_indication_counter < MaxIndCsv
    /\ \E ind \in CsvIndications : csv_sm_cb_kpm(ind, 0)

SpecCsv == Init /\ [][NextCsv]_vars

(* the serving tuples of an indication that pass the test of the matcher, *)
(* in the reports whose two lists have the same length                    *)
ValidServingTuples(ind) ==
    SumNat([r \in 1..Len(ind.reports) |->
              IF Len(ind.reports[r].items) # ind.reports[r].data_len THEN 0
              ELSE Cardinality({k \in 1..Len(ind.reports[r].items) :
                                  csv_ServingAccepted(ind.reports[r].items[k])})])

(* C36: in the per-indication CSV variant each indication emits exactly   *)
(* one row per valid serving tuple it contains, for any number of serving *)
(* tuples in the indication, and num_measurements is 0 again when the     *)
(* callback returns, so that no measurement is emitted by two             *)
(* indications.                                                           *)
C36_OneRowPerServingTuple ==
    csv_pstate = "run" =>
        /\ csv_emitted = ValidServingTuples(csv_last_ind)
        /\ csv_num_measurements = 0

(***************************************************************************)
(* kpm_monitor_xapp_v1.c: the console report of an indication              *)
(***************************************************************************)

V1MaxNeighbors == 20
MaxRecordLen == 3
MaxIndV1 == 3

(* What a read of meas_record_lst[meas_record_len] gives: the element lies *)
(* behind the array, so the read is trapped, or it gives whatever the      *)
(* bytes there hold.                                                       *)
OobOutcomes == {"trap", "zero", "nine"}
OobValue(g) == IF g = "nine" THEN 9 ELSE 0

(* lines 283-292 and 323-331: the neighbors collected for the current UE  *)
(* are written as one line                                                 *)
v1_FlushNeighbors(L) ==
    IF L.current_ue # -1 /\ Len(L.neighbors) > 0
    THEN [L EXCEPT !.lines = Append(L.lines, [kind |-> "neighbors",
                                              list |-> L.neighbors])]
    ELSE L

(* the loop over the records of one item, lines 277-319; j counts from 0  *)
(* as in the code.  L = [current_ue, neighbors, lines, reads, ub]: reads   *)
(* is the history of the pairs read, [len, j] for the elements j and j+1   *)
(* of a list of len records.                                               *)
RECURSIVE v1_RecordLoop(_, _, _, _)
v1_RecordLoop(L, item, j, g) ==
    LET len == Len(item.records)
    IN
    IF j >= len \/ L.ub THEN L
    ELSE IF item.type = "NAME" /\ item.name.prefix = "serv"
    THEN LET L1 == v1_FlushNeighbors(L)
             L2 == IF L.current_ue # -1 /\ Len(L.neighbors) > 0
                   THEN [L1 EXCEPT !.neighbors = <<>>] ELSE L1
             info == parseServingMsg(item.name)
         IN v1_RecordLoop(
                [L2 EXCEPT !.current_ue = info.ueID,
                           !.lines = Append(L2.lines,
                                        [kind |-> "serving", ue |-> info.ueID,
                                         cell |-> info.cellID,
                                         sinr |-> item.records[j + 1].v])],
                item, j + 1, g)
    ELSE IF item.type = "NAME" /\ item.name.prefix = "neigh"
    THEN LET info == parseNeighMsg(item.name)
         IN IF info.ueID = L.current_ue /\ Len(L.neighbors) < V1MaxNeighbors
            THEN LET inside == j + 1 < len
                     id == IF inside THEN item.records[j + 2].v ELSE OobValue(g)
                     L1 == [L EXCEPT !.reads = Append(L.reads,
                                                      [len |-> len, j |-> j])]
                 IN IF ~inside /\ g = "trap"
                    THEN [L1 EXCEPT !.ub = TRUE]
                    ELSE v1_RecordLoop(
                             [L1 EXCEPT !.neighbors =
                                 Append(L1.neighbors,
                                        [neighbor_id |-> id,
                                         sinr |-> item.records[j + 1].v])],
                             item, j + 2, g)
            ELSE v1_RecordLoop(L, item, j + 2, g)
    ELSE v1_RecordLoop(L, item, j + 1, g)

(* log_kpm_measurements, lines 252-333, on [lines, reads, ub, abort] *)
v1_log_kpm_measurements(c, report, g) ==
    IF Len(report.items) = 0 THEN [c EXCEPT !.abort = TRUE]   \* assert
    ELSE IF Len(report.items) # report.data_len THEN c
    ELSE LET L0 == [current_ue |-> 0 - 1, neighbors |-> <<>>, lines |-> c.lines,
                    reads |-> c.reads, ub |-> FALSE]
             L1 == FoldSeq(LAMBDA a, item : v1_RecordLoop(a, item, 0, g),
                           L0, report.items)
             L2 == IF L1.ub THEN L1 ELSE v1_FlushNeighbors(L1)
         IN  [c EXCEPT !.lines = L2.lines, !.reads = L2.reads, !.ub = L2.ub]

RECURSIVE v1_ReportLoop(_, _, _, _)
v1_ReportLoop(c, reports, i, g) ==
    IF i > Len(reports) \/ c.abort \/ c.ub THEN c
    ELSE v1_ReportLoop(v1_log_kpm_measurements(c, reports[i], g), reports, i + 1, g)

(* sm_cb_kpm, lines 374-397 *)
v1_sm_cb_kpm(ind, g) ==
    /\ v1_pstate = "run"
    /\ \E c \in {v1_ReportLoop(
                    [lines |-> <<[kind |-> "banner",
                                  n |-> v1_indication_counter + 1]>>,
                     reads |-> <<>>, ub |-> FALSE, abort |-> FALSE],
                    ind.reports, 1, g)} :
         /\ v1_out' = v1_out \o c.lines
                        \o (IF c.abort \/ c.ub THEN <<>> ELSE <<[kind |-> "end"]>>)
         /\ v1_reads' = c.reads
         /\ v1_pstate' = IF c.ub THEN "undefined"
                         ELSE IF c.abort THEN "aborted" ELSE "run"
    /\ v1_indication_counter' = v1_indication_counter + 1
    /\ v1_last_ind' = ind
    /\ UNCHANGED <<maVars, seqVars, ivVars, sortVars, ccVars, shVars, csvVars,
                   prbVars>>

(* record lists of every length up to MaxRecordLen: (SINR, id) pairs, the  *)
(* last pair without its id when the length is odd                         *)
RecordList(n) ==
    [k \in 1..n |-> IF k % 2 = 1 THEN Real(10 + k) ELSE Integer(2 + (k \div 2))]

(* a serving tuple of UE 1 followed by a neighbor list of UE 1 or of UE 2 *)
V1Reports ==
    {<<Report(<<Serv(1, 2, 10), Neigh(u, 2, RecordList(n))>>)>> :
        u \in {1, 2}, n \in 0..MaxRecordLen}
    \cup {<<MismatchedReport>>}

V1Indications == [timestamp : {0}, reports : V1Reports]

NextV1 ==
    /\ v1_indication_counter < MaxIndV1
    /\ \E ind \in V1Indications, g \in OobOutcomes : v1_sm_cb_kpm(ind, g)

SpecV1 == Init /\ [][NextV1]_vars

(* C37: when a neighbor list is parsed, the (SINR, neighbor id) pair at    *)
(* positions j and j+1 of the record list is read only if both positions   *)
(* are below meas_record_len, for every record-list length including odd   *)
(* lengths.                                                                *)
C37_PairInsideList ==
    \A k \in 1..Len(v1_reads) : v1_reads[k].j + 1 < v1_reads[k].len

(***************************************************************************)
(* src/unnamed/part_001: the PRB-usage check of MmWaveEnbNetDevice         *)
(***************************************************************************)

(* MAX_PRB_HISTORY is used at lines 33-43 and defined outside the source   *)
(* given; the model takes a window of three values.                        *)
MAX_PRB_HISTORY == 3
MaxChecks == 5

(* currentPrbValue, line 27: a percentage, at most 100 *)
PrbValues == {0, 40, 100}

(* the subscription map at lines 63-72: empty, holding both entries as     *)
(* int, or such that at() or any_cast throws                               *)
SubMaps == {"empty", "ok", "throws"}

(* CalculatePrbAverage, lines 3-55, from m_prbHistory and the value of     *)
(* line 27.  The double returned is the fraction num / den; size is the    *)
(* number of values the history held at the test of line 36.               *)
CalculatePrbAverage(history, currentPrbValue) ==
    LET pushed == Append(history, currentPrbValue)
    IN  IF Len(pushed) = MAX_PRB_HISTORY
        THEN [history |-> Tail(pushed),
              ret |-> [num |-> SumSeq(pushed), den |-> MAX_PRB_HISTORY],
              size |-> Len(pushed)]
        ELSE [history |-> pushed,
              ret |-> [num |-> 0, den |-> 1],
              size |-> Len(pushed)]

(* CheckReportingFlag, lines 57-112.  gate is the test of line 61.         *)
CheckReportingFlag(gate, sub_map, currentPrbValue) ==
    /\ prb_scheduled
    /\ prb_checks < MaxChecks
    /\ prb_checks' = prb_checks + 1
    /\ prb_scheduled' = gate
    /\ IF gate /\ sub_map = "ok"
       THEN \E r \in {CalculatePrbAverage(m_prbHistory, currentPrbValue)} :
              /\ m_prbHistory' = r.history
              /\ IF r.ret.num >= 0            \* currentPrbAvg >= 0, line 78
                 THEN /\ m_is_reported' = TRUE    \* shouldReport = true, line 82
                      /\ m_isReportingEnabled' = TRUE
                      /\ prb_reports' = Append(prb_reports,
                                               [avg |-> r.ret, size |-> r.size])
                 ELSE UNCHANGED <<m_is_reported, m_isReportingEnabled, prb_reports>>
       ELSE UNCHANGED <<m_prbHistory, m_is_reported, m_isReportingEnabled,
                        prb_reports>>
    /\ UNCHANGED <<maVars, seqVars, ivVars, sortVars, ccVars, shVars, csvVars,
                   v1Vars>>

NextPrb ==
    \E gate \in BOOLEAN, sub_map \in SubMaps, v \in PrbValues :
        CheckReportingFlag(gate, sub_map, v)

SpecPrb == Init /\ [][NextPrb]_vars

(* C38: CheckReportingFlag builds a report only when CalculatePrbAverage   *)
(* had MAX_PRB_HISTORY values available; while fewer values have been      *)
(* collected, no report message is built or sent.                          *)
C38_ReportNeedsFullHistory ==
    \A k \in 1..Len(prb_reports) : prb_reports[k].size = MAX_PRB_HISTORY

====
